---- MODULE Spec2Model ----
(***************************************************************************)
(* LifeQuery: a model of the front-end SSE client (api/client.ts,          *)
(* api/chat.ts), the Data tab's task handlers, and of the back-end         *)
(* pipeline the front end talks to (task manager, chat orchestrator,       *)
(* durable store, vector store, ingest, reindex, retrieval).  The back-end *)
(* sources are not among the repository files at hand; those parts are     *)
(* modelled from the design document and say so where they are defined.    *)
(*                                                                         *)
(* Text is a sequence of symbols.  A symbol is one character, except that  *)
(* a JSON atom (a type name, a content string) is one symbol: a JSON       *)
(* object {"type":t,"content":c} is written <<"{", t, c, "}">>, and        *)
(* {"type":t} is <<"{", t, "}">>.                                          *)
(***************************************************************************)
EXTENDS Integers, Sequences, FiniteSets, TLC

VARIABLES
    \* ---- SSE client (api/client.ts apiStream) ----
    lines,      \* the event lines the server side wrote, in order (ghost)
    sep,        \* the line terminator the server used (ghost)
    wire,       \* bytes written by the server and not yet read by the client
    closed,     \* the server has closed the response body
    buffer,     \* apiStream's `buffer`
    yielded,    \* the events apiStream has yielded so far
    spc,        \* apiStream's position: "reading", "returned", "ended"
    \* ---- chat orchestrator (back end, POST /api/chat) ----
    srv,        \* [phase, ntok, failed, cancelled, reasoned]
    \* ---- task manager (back end) and the Data tab's task cards ----
    tasks,      \* kind -> the running tasks of that kind (who started each)
    inflight,   \* kinds with a start request sent by the UI, not yet answered
    taskState,  \* kind -> the Data tab's syncState/importState/reindexState status
    reindexDialog,  \* the reindex confirmation dialog is open
    autoSync,   \* the auto_sync_interval setting is > 0
    lastStart,  \* the last start the task manager decided (ghost)
    \* ---- back-end pipeline ----
    included,   \* chat_id -> the chat's included flag
    messages,   \* the messages table
    chunks,     \* the chunks table (rows with id, chat, text, embedded, ...)
    live,       \* the live vector collection: [present, vecs]
    temp,       \* the temp vector collection of a reindex: [present, vecs]
    run,        \* the ingest run in progress
    rx,         \* the reindex in progress
    rt,         \* the retrieve in progress
    hist,       \* ghost: the state the last ingest run left, the last delete-chat
    \* ---- pure functions checked input by input ----
    arg,        \* the input the function is applied to
    res,        \* [done, out]: the function's output once it has been applied
    \* ---- settings store, API gateway and the Settings tab ----
    config,     \* the stored settings, in plain text
    settingsTab,    \* the Settings tab: [loaded, settings, error]
    http,       \* ghost: the last request the gateway saw and what it answered
    \* ---- the Chat tab ----
    chatTab,    \* [isLoading, abortController, signal, error, content, stopped, atStop]
    \* ---- Telegram authorization (Settings tab and message source) ----
    tg,         \* [state, twoFA, telegramStatus, authStatus, authError, authToken, verify]
    \* ---- the Chat tab's conversation over several sends ----
    conv,       \* [input, isLoading, abortController, error, messages, streams, ...]
    \* ---- hooks ----
    health,     \* useHealthCheck: [status, mounted, checks, started, shown, ...]
    models,     \* useModels: [models, loading, error, reqs, issued, ...]
    \* ---- the Data tab's sync and process ----
    dataTab     \* [syncState, isProcessing, has_pending, streams]

sseVars == <<lines, sep, wire, closed, buffer, yielded, spc>>
chatVars == <<srv>>
taskVars == <<tasks, inflight, taskState, reindexDialog, autoSync, lastStart>>
storeVars == <<included, messages, chunks, live, temp, run, rx, rt, hist>>
fnVars == <<arg, res>>
gatewayVars == <<config, settingsTab, http>>
hookVars == <<conv, health, models, dataTab>>
panelVars == <<gatewayVars, chatTab, tg, hookVars>>
outsideStream == <<taskVars, storeVars, fnVars, panelVars>>
outsideTasks == <<sseVars, chatVars, storeVars, fnVars, panelVars>>
outsideStore == <<sseVars, chatVars, taskVars, fnVars, panelVars>>
outsideFn == <<sseVars, chatVars, taskVars, storeVars, panelVars>>
outsideGateway == <<sseVars, chatVars, taskVars, storeVars, fnVars, chatTab, tg, hookVars>>
outsideChatTab == <<taskVars, storeVars, fnVars, gatewayVars, tg, hookVars>>
outsideTg == <<sseVars, chatVars, taskVars, storeVars, fnVars, gatewayVars, chatTab, hookVars>>
outsidePanels == <<sseVars, chatVars, taskVars, storeVars, fnVars, gatewayVars, chatTab, tg>>
outsideConv == <<outsidePanels, health, models, dataTab>>
outsideHealth == <<outsidePanels, conv, models, dataTab>>
outsideModels == <<outsidePanels, conv, health, dataTab>>
outsideDataTab == <<outsidePanels, conv, health, models>>
vars == <<lines, sep, wire, closed, buffer, yielded, spc, srv,
          tasks, inflight, taskState, reindexDialog, autoSync, lastStart,
          included, messages, chunks, live, temp, run, rx, rt, hist,
          arg, res, config, settingsTab, http, chatTab, tg,
          conv, health, models, dataTab>>

\* ------------------------------------------------------------------------
\* Bounds
\* ------------------------------------------------------------------------
MaxLines == 3       \* lines in a stream of the SSE specification
MaxRead == 3        \* symbols one reader.read() returns at most, besides "all"
MaxTokens == 2      \* tokens the LLM streams in one chat at most

\* ------------------------------------------------------------------------
\* Text helpers (String.prototype.split / trim / startsWith / slice)
\* ------------------------------------------------------------------------
Whitespace == {" ", "\r", "\n", "\t"}

RECURSIVE TrimStart(_)
TrimStart(s) ==
    IF s # <<>> /\ Head(s) \in Whitespace THEN TrimStart(Tail(s)) ELSE s

RECURSIVE TrimEnd(_)
TrimEnd(s) ==
    IF s # <<>> /\ s[Len(s)] \in Whitespace
    THEN TrimEnd(SubSeq(s, 1, Len(s) - 1))
    ELSE s

Trim(s) == TrimEnd(TrimStart(s))

StartsWith(s, p) == Len(s) >= Len(p) /\ SubSeq(s, 1, Len(p)) = p

\* s.split("\n"): the pieces between newlines; k newlines give k+1 pieces.
RECURSIVE SplitFrom(_, _, _)
SplitFrom(s, i, cur) ==
    IF i > Len(s) THEN <<cur>>
    ELSE IF s[i] = "\n" THEN <<cur>> \o SplitFrom(s, i + 1, <<>>)
    ELSE SplitFrom(s, i + 1, Append(cur, s[i]))

SplitNl(s) == SplitFrom(s, 1, <<>>)

RECURSIVE Flatten(_)
Flatten(ss) == IF ss = <<>> THEN <<>> ELSE Head(ss) \o Flatten(Tail(ss))

\* ------------------------------------------------------------------------
\* api/client.ts
\* ------------------------------------------------------------------------
DataPrefix == <<"d", "a", "t", "a", ":", " ">>
DoneMarker == <<"[", "D", "O", "N", "E", "]">>

EventTypes == {"token", "citations", "debug", "done", "progress", "reasoning", "error"}
Contents == {"a", "b", "[Error: x]"}

Null == [type |-> "null", content |-> ""]
Ev(t, c) == [type |-> t, content |-> c]

\* JSON.parse restricted to the objects the server writes: anything else throws.
JsonOk(data) ==
    /\ Len(data) \in {3, 4}
    /\ data[1] = "{"
    /\ data[Len(data)] = "}"
    /\ data[2] \in EventTypes
    /\ Len(data) = 4 => data[3] \in Contents

JsonParse(data) == Ev(data[2], IF Len(data) = 4 THEN data[3] ELSE "")

parseSseLine(line) ==
    IF ~StartsWith(line, DataPrefix) THEN Null
    ELSE LET data == Trim(SubSeq(line, 7, Len(line)))
         IN  IF data = DoneMarker THEN Ev("done", "")
             ELSE IF JsonOk(data) THEN JsonParse(data)
             ELSE Null

\* apiStream without the `return` after a done event.
RECURSIVE YieldLines_NoReturn(_)
YieldLines_NoReturn(ls) ==
    IF ls = <<>> THEN [evs |-> <<>>, ret |-> FALSE]
    ELSE LET event == parseSseLine(Trim(Head(ls)))
             r == YieldLines_NoReturn(Tail(ls))
         IN  IF event = Null THEN r
             ELSE [evs |-> <<event>> \o r.evs, ret |-> FALSE]

\* The for-loop of apiStream over the complete lines of one read: the events
\* it yields, and whether it returned (a done event ends the generator).
RECURSIVE YieldLines(_)
YieldLines(ls) ==
    IF ls = <<>> THEN [evs |-> <<>>, ret |-> FALSE]
    ELSE LET event == parseSseLine(Trim(Head(ls)))
         IN  IF event = Null THEN YieldLines(Tail(ls))
             ELSE IF event.type = "done" THEN [evs |-> <<event>>, ret |-> TRUE]
             ELSE LET r == YieldLines(Tail(ls))
                  IN  [evs |-> <<event>> \o r.evs, ret |-> r.ret]

\* A loop turn that forgets the unfinished line of the read before.
ApiStreamStep_NoCarry(buf, value) ==
    LET parts == SplitNl(value)
        r == YieldLines(SubSeq(parts, 1, Len(parts) - 1))
    IN  [buffer |-> parts[Len(parts)], evs |-> r.evs, ret |-> r.ret]

\* One turn of apiStream's while-loop with a read that returned `value`.
ApiStreamStep(buf, value) ==
    LET parts == SplitNl(buf \o value)
        r == YieldLines(SubSeq(parts, 1, Len(parts) - 1))
    IN  [buffer |-> parts[Len(parts)], evs |-> r.evs, ret |-> r.ret]

ReadSizes == (1 .. MaxRead) \cup {Len(wire)}

\* reader.read() returns the next n bytes; the loop body runs on them.
ApiStreamRead ==
    /\ spc = "reading"
    /\ wire # <<>>
    /\ \E n \in ReadSizes :
        /\ n >= 1 /\ n <= Len(wire)
        /\ LET s == ApiStreamStep(buffer, SubSeq(wire, 1, n))
           IN  /\ buffer' = s.buffer
               /\ yielded' = yielded \o s.evs
               /\ spc' = IF s.ret THEN "returned" ELSE "reading"
        /\ wire' = SubSeq(wire, n + 1, Len(wire))
    /\ UNCHANGED <<lines, sep, closed, chatVars, outsideStream>>

\* reader.read() returns done: the loop breaks, the generator ends.
ApiStreamEnd ==
    /\ spc = "reading"
    /\ wire = <<>>
    /\ closed
    /\ spc' = "ended"
    /\ UNCHANGED <<lines, sep, wire, closed, buffer, yielded, chatVars, outsideStream>>

SrvIdle == [phase |-> "idle", ntok |-> 0, failed |-> FALSE,
            cancelled |-> FALSE, reasoned |-> FALSE]

TaskKinds == {"sync", "import", "reindex"}

TasksIdle ==
    /\ tasks = [k \in TaskKinds |-> <<>>]
    /\ inflight = {}
    /\ taskState = [k \in TaskKinds |-> "idle"]
    /\ reindexDialog = FALSE
    /\ autoSync = FALSE
    /\ lastStart = [kind |-> "none", by |-> "none", busy |-> FALSE, result |-> "none"]

\* Idle states of the back-end pipeline (defined with it further down).
ChatIds == {"A", "B"}

Absent == [present |-> FALSE, vecs |-> {}]

Collection(vecs) == [present |-> TRUE, vecs |-> vecs]

RtIdle == [pc |-> "idle", q |-> "q1", mask |-> {}, result |-> <<>>,
           during |-> FALSE, had |-> FALSE, saw |-> "none"]

RunIdle == [pc |-> "idle", queue |-> <<>>, fresh |-> {}, inserted |-> 0,
            created |-> 0, status |-> "none", second |-> FALSE]

RxIdle == [pc |-> "idle", pre |-> {}]

NoPrev == [valid |-> FALSE, ok |-> FALSE, msgs |-> {}, chunks |-> {}, vecs |-> {},
           status |-> "none", messages_added |-> 0]

NoDel == [chat |-> "none", hashes |-> {}]

NotApplied == [done |-> FALSE, out |-> <<>>]

FnIdle == arg = [fn |-> "none"] /\ res = NotApplied

\* Idle states of the Settings tab, the Chat tab and the Telegram panel
\* (their state is defined with them further down).
SettingKeys == {"api_key", "chat_api_key", "chat_model"}

NoRequest == [path |-> "none", stream |-> FALSE, ui |-> FALSE, auth |-> "",
              key |-> "", status |-> 0,
              sent |-> [k \in SettingKeys |-> ""], before |-> [k \in SettingKeys |-> ""]]

GatewayIdle ==
    /\ config = [k \in SettingKeys |-> IF k = "chat_model" THEN "m1" ELSE ""]
    /\ settingsTab = [loaded |-> FALSE, settings |-> [k \in SettingKeys |-> ""],
                      error |-> FALSE]
    /\ http = NoRequest

ChatTabIdle == [isLoading |-> FALSE, abortController |-> FALSE, signal |-> "none",
                error |-> FALSE, content |-> <<>>, stopped |-> FALSE, atStop |-> <<>>]

NoVerify == [by |-> "none", code |-> "none", password |-> FALSE, answered |-> FALSE,
             token |-> FALSE, phone |-> FALSE]

TgIdle == [state |-> "needs_auth", twoFA |-> FALSE, telegramStatus |-> "uninitialized",
           authStatus |-> "idle", authError |-> FALSE, authToken |-> FALSE,
           verify |-> NoVerify,
           phone |-> 0, mounted |-> FALSE, pending |-> {},
           issuesToken |-> TRUE, statusRestores |-> TRUE, cancelledFlow |-> FALSE,
           chatTab |-> [telegramStatus |-> "uninitialized", checkingTelegram |-> TRUE],
           dataTab |-> [telegramStatus |-> "uninitialized", answered |-> FALSE]]

\* Bounds of the hooks' and the conversation's models.
MaxSends == 2       \* messages sent in one behaviour of the conversation
MaxChecks == 3      \* health checks started in one behaviour
MaxRequests == 3    \* models requests issued in one behaviour
MaxStreams == 3     \* sync/process streams started in one behaviour

NoSend == [did |-> FALSE, blank |-> FALSE, loading |-> FALSE, before |-> <<>>]

ConvIdle == [input |-> <<>>, isLoading |-> FALSE, abortController |-> 0,
             error |-> FALSE, messages |-> <<>>,
             streams |-> [k \in 1 .. MaxSends |-> "none"],
             requests |-> [k \in 1 .. MaxSends |-> <<>>],
             sent |-> 0, last |-> NoSend]

HealthIdle == [status |-> "checking", mounted |-> FALSE, cancelled |-> FALSE,
               checks |-> [i \in 1 .. MaxChecks |-> "none"],
               started |-> 0, shown |-> 0, atUnmount |-> "none"]

ModelsIdle == [models |-> "none", loading |-> TRUE, error |-> FALSE,
               reqs |-> [i \in 1 .. MaxRequests |-> "none"],
               cancelled |-> [i \in 1 .. MaxRequests |-> FALSE],
               when |-> [i \in 1 .. MaxRequests |-> 0],
               issued |-> 0, from |-> 0, mounted |-> FALSE]

DataTabIdle == [syncState |-> "idle", message |-> "none",
                isProcessing |-> FALSE, has_pending |-> FALSE,
                streams |-> [i \in 1 .. MaxStreams |-> [path |-> "none", open |-> FALSE]],
                started |-> 0]

HooksIdle ==
    /\ conv = ConvIdle
    /\ health = HealthIdle
    /\ models = ModelsIdle
    /\ dataTab = DataTabIdle

PanelsIdle == GatewayIdle /\ chatTab = ChatTabIdle /\ tg = TgIdle /\ HooksIdle

StoreIdle ==
    /\ included = [c \in ChatIds |-> TRUE]
    /\ messages = {}
    /\ chunks = {}
    /\ live = Collection({})
    /\ temp = Absent
    /\ run = RunIdle
    /\ rx = RxIdle
    /\ rt = RtIdle
    /\ hist = [prev |-> NoPrev, del |-> NoDel]

\* ------------------------------------------------------------------------
\* SSE specification: any stream contents, any splitting into reads
\* ------------------------------------------------------------------------
DataLine(payload) == DataPrefix \o payload

LineKinds == {
    DataLine(<<"{", "token", "a", "}">>),
    DataLine(<<"{", "token", "b", "}">>),
    DataLine(<<"{", "done", "}">>),
    DataLine(DoneMarker),
    DataLine(<<"{", "token", "a">>),
    <<":", " ", "k">> }

Seps == { <<"\n">>, <<"\n", "\n">>, <<"\r", "\n", "\r", "\n">>, <<"\r", "\r">> }

StreamLines == UNION { [1 .. n -> LineKinds] : n \in 0 .. MaxLines }

Serialize(ls, sp) == Flatten([i \in 1 .. Len(ls) |-> ls[i] \o sp])

SseInit ==
    /\ lines \in StreamLines
    /\ sep \in Seps
    /\ wire = Serialize(lines, sep)
    /\ closed = TRUE
    /\ buffer = <<>>
    /\ yielded = <<>>
    /\ spc = "reading"
    /\ srv = SrvIdle
    /\ TasksIdle
    /\ StoreIdle
    /\ FnIdle
    /\ PanelsIdle

SseNext == ApiStreamRead \/ ApiStreamEnd

SpecSse == SseInit /\ [][SseNext]_vars

\* ------------------------------------------------------------------------
\* What a stream's lines say, read line by line (no buffering involved)
\* ------------------------------------------------------------------------
RECURSIVE DataEvents(_)
DataEvents(ls) ==
    IF ls = <<>> THEN <<>>
    ELSE LET e == parseSseLine(Trim(Head(ls)))
         IN  IF e = Null THEN DataEvents(Tail(ls)) ELSE <<e>> \o DataEvents(Tail(ls))

RECURSIVE CutAtDone(_)
CutAtDone(evs) ==
    IF evs = <<>> THEN <<>>
    ELSE IF Head(evs).type = "done" THEN <<Head(evs)>>
    ELSE <<Head(evs)>> \o CutAtDone(Tail(evs))

IsPrefix(a, b) == Len(a) <= Len(b) /\ SubSeq(b, 1, Len(a)) = a

DoneIsLast(evs) == \A i \in 1 .. Len(evs) : evs[i].type = "done" => i = Len(evs)

NewlineSep == sep # <<"\r", "\r">>

\* C7: apiStream yields the events in the order their data lines arrive, and a
\* done event (data: [DONE] or type "done") is the last thing it yields: it
\* returns there, whatever the stream holds after it.
C7_ApiStreamStopsAtDone ==
    /\ DoneIsLast(yielded)
    /\ (spc = "returned") <=> (yielded # <<>> /\ yielded[Len(yielded)].type = "done")
    /\ NewlineSep => IsPrefix(yielded, CutAtDone(DataEvents(lines)))
    /\ NewlineSep /\ spc \in {"returned", "ended"}
         => yielded = CutAtDone(DataEvents(lines))

\* C7 witness: apiStream returned at a done event that was not the stream's
\* last data line, having yielded an event before it and leaving bytes unread.
C7_Witness ==
    /\ spc = "returned"
    /\ Len(yielded) >= 2
    /\ wire # <<>>
    /\ Len(DataEvents(lines)) > Len(yielded)

\* The bytes the reads have returned so far, whatever the reads were.
Received ==
    LET all == Serialize(lines, sep)
    IN  SubSeq(all, 1, Len(all) - Len(wire))

\* The newline-terminated lines of a byte string.
CompleteLines(s) == LET parts == SplitNl(s) IN SubSeq(parts, 1, Len(parts) - 1)

\* C23: what apiStream has yielded is a function of the bytes received, not
\* of the reads that delivered them: the events of the newline-terminated
\* lines received, up to the first done event; once a stream whose every
\* line ends with a newline is read to its end, these are the events of all
\* its lines.
C23_ReadsDoNotMatter ==
    /\ yielded = CutAtDone(DataEvents(CompleteLines(Received)))
    /\ spc = "reading" => buffer = SplitNl(Received)[Len(SplitNl(Received))]
    /\ NewlineSep /\ wire = <<>> =>
           DataEvents(CompleteLines(Received)) = DataEvents(lines)

\* C23 witness: a read ended inside the "data: " prefix of a line, after an
\* event of an earlier line had been yielded and with bytes still to come.
C23_Witness ==
    /\ NewlineSep
    /\ spc = "reading"
    /\ yielded # <<>>
    /\ buffer # <<>>
    /\ buffer = SubSeq(DataPrefix, 1, Len(buffer))
    /\ wire # <<>>

\* ------------------------------------------------------------------------
\* Chat orchestrator (design document 4.8, 4.4): the events of POST /api/chat
\* ------------------------------------------------------------------------
CrLfCrLf == <<"\r", "\n", "\r", "\n">>

EventJson(e) ==
    IF e.content = "" THEN <<"{", e.type, "}">> ELSE <<"{", e.type, e.content, "}">>

\* sse-starlette writes one event: data: <json>\r\n\r\n
Emit(payload) ==
    /\ lines' = Append(lines, DataLine(payload))
    /\ wire' = wire \o DataLine(payload) \o sep
    /\ UNCHANGED sep

ErrorText == "[Error: x]"

\* The request arrives; the debug event goes out once, up front.
ChatStart ==
    /\ srv.phase = "idle"
    /\ Emit(EventJson(Ev("debug", "")))
    /\ srv' = [srv EXCEPT !.phase = "tokens"]
    /\ UNCHANGED <<closed, buffer, yielded, spc, outsideStream>>

\* The LLM client yields a token.
ChatToken ==
    /\ srv.phase = "tokens"
    /\ srv.ntok < MaxTokens
    /\ \E c \in {"a", "b"} : Emit(EventJson(Ev("token", c)))
    /\ srv' = [srv EXCEPT !.ntok = @ + 1]
    /\ UNCHANGED <<closed, buffer, yielded, spc, outsideStream>>

\* The LLM client yields reasoning on its structured channel.
ChatReasoning ==
    /\ srv.phase = "tokens"
    /\ ~srv.reasoned
    /\ Emit(EventJson(Ev("reasoning", "a")))
    /\ srv' = [srv EXCEPT !.reasoned = TRUE]
    /\ UNCHANGED <<closed, buffer, yielded, spc, outsideStream>>

\* The normal end that does not leave the token loop.
ChatLlmEnd_KeepsStreaming ==
    /\ srv.phase = "tokens"
    /\ Emit(EventJson(Ev("citations", "")))
    /\ srv' = srv
    /\ UNCHANGED <<closed, buffer, yielded, spc, outsideStream>>

\* The LLM sequence ends normally: citations go out once, after the last token.
ChatLlmEnd ==
    /\ srv.phase = "tokens"
    /\ Emit(EventJson(Ev("citations", "")))
    /\ srv' = [srv EXCEPT !.phase = "finishing"]
    /\ UNCHANGED <<closed, buffer, yielded, spc, outsideStream>>

\* The error path that falls through to the normal end of the stream.
ChatLlmError_FallsThrough ==
    /\ srv.phase = "tokens"
    /\ ~srv.failed
    /\ Emit(EventJson(Ev("token", ErrorText)))
    /\ srv' = [srv EXCEPT !.failed = TRUE, !.ntok = MaxTokens]
    /\ UNCHANGED <<closed, buffer, yielded, spc, outsideStream>>

\* The LLM client surfaces an error (non-2xx response, stream error, idle
\* timeout): one [Error: ...] token, no citations.
ChatLlmError ==
    /\ srv.phase = "tokens"
    /\ Emit(EventJson(Ev("token", ErrorText)))
    /\ srv' = [srv EXCEPT !.phase = "finishing", !.failed = TRUE]
    /\ UNCHANGED <<closed, buffer, yielded, spc, outsideStream>>

\* The caller cancels: no more tokens, the terminal marker still goes out.
ChatCancel ==
    /\ srv.phase = "tokens"
    /\ srv' = [srv EXCEPT !.phase = "finishing", !.cancelled = TRUE]
    /\ UNCHANGED <<sseVars, outsideStream>>

\* The terminal marker, data: [DONE], and the end of the response body.
ChatDone ==
    /\ srv.phase = "finishing"
    /\ Emit(DoneMarker)
    /\ closed' = TRUE
    /\ srv' = [srv EXCEPT !.phase = "closed"]
    /\ UNCHANGED <<buffer, yielded, spc, outsideStream>>

\* The response body ends without the terminal marker (the connection or an
\* upstream proxy closes it): reader.read() then reports done.
StreamCut ==
    /\ srv.phase \in {"tokens", "finishing"}
    /\ ~closed
    /\ closed' = TRUE
    /\ srv' = [srv EXCEPT !.phase = "cut"]
    /\ UNCHANGED <<lines, sep, wire, buffer, yielded, spc, outsideStream>>

\* api/chat.ts streamChat: only token, citations and debug events pass.
streamChat(evs) ==
    SelectSeq(evs, LAMBDA e : e.type \in {"token", "citations", "debug"})

ChatInit ==
    /\ lines = <<>>
    /\ sep = CrLfCrLf
    /\ wire = <<>>
    /\ closed = FALSE
    /\ buffer = <<>>
    /\ yielded = <<>>
    /\ spc = "reading"
    /\ srv = SrvIdle
    /\ TasksIdle
    /\ StoreIdle
    /\ FnIdle
    /\ PanelsIdle

ChatNext ==
    \/ ChatStart
    \/ ChatToken
    \/ ChatReasoning
    \/ ChatLlmEnd
    \/ ChatLlmError
    \/ ChatCancel
    \/ ChatDone
    \/ StreamCut
    \/ ApiStreamRead
    \/ ApiStreamEnd

SpecChat == ChatInit /\ [][ChatNext]_vars

Emitted == DataEvents(lines)

Count(evs, t) == Cardinality({i \in 1 .. Len(evs) : evs[i].type = t})

ChatOrder(evs) ==
    /\ Count(evs, "debug") <= 1
    /\ Count(evs, "citations") <= 1
    /\ \A i, j \in 1 .. Len(evs) :
        /\ evs[i].type = "debug" /\ evs[j].type = "token" => i < j
        /\ evs[i].type = "token" /\ evs[j].type = "citations" => i < j
    /\ DoneIsLast(evs)
    /\ evs # <<>> => evs[1].type = "debug"

\* C5: in a /chat stream exactly one debug event is emitted and it precedes
\* every token, every token precedes the citations event, and done is last;
\* the same holds of the events the client's apiStream yields and of those
\* streamChat passes on.
C5_ChatEventOrder ==
    /\ ChatOrder(Emitted)
    /\ srv.phase # "idle" => Count(Emitted, "debug") = 1
    /\ srv.phase = "closed" => Emitted[Len(Emitted)].type = "done"
    /\ ChatOrder(yielded)
    /\ ChatOrder(streamChat(yielded))

\* C5 witness: a complete stream with debug, two tokens, citations and done,
\* all of it delivered to the client.
C5_Witness ==
    /\ srv.phase = "closed"
    /\ spc = "returned"
    /\ Count(yielded, "token") = 2
    /\ Count(yielded, "citations") = 1
    /\ Count(yielded, "debug") = 1

ErrorTokens(evs) ==
    {i \in 1 .. Len(evs) : evs[i].type = "token" /\ evs[i].content = ErrorText}

LastToken(evs) ==
    LET ts == {i \in 1 .. Len(evs) : evs[i].type = "token"}
    IN  CHOOSE i \in ts : \A j \in ts : j <= i

\* C6 as stated: when the LLM fails the stream holds exactly one token event,
\* the [Error: ...] one, then done, and no citations.
C6_OneTokenOnFailure ==
    srv.failed /\ srv.phase = "closed" =>
        /\ Count(Emitted, "token") = 1
        /\ Cardinality(ErrorTokens(Emitted)) = 1
        /\ Count(Emitted, "citations") = 0
        /\ Emitted[Len(Emitted)].type = "done"

\* C6 amended: when the LLM fails the stream holds exactly one [Error: ...]
\* token; it is the last token event (the tokens streamed before the failure
\* precede it), the terminal done marker follows it directly, and there is no
\* citations event.  The client's apiStream delivers the same.
C6_ErrorTokenThenDone ==
    /\ srv.failed =>
        /\ Cardinality(ErrorTokens(Emitted)) = 1
        /\ LastToken(Emitted) \in ErrorTokens(Emitted)
        /\ LastToken(Emitted) >= Len(Emitted) - 1
        /\ Count(Emitted, "citations") = 0
    /\ srv.failed /\ srv.phase = "closed" =>
        /\ Emitted[Len(Emitted)].type = "done"
        /\ Emitted[Len(Emitted) - 1] = Ev("token", ErrorText)
    /\ srv.failed /\ spc = "returned" =>
        /\ yielded = Emitted
        /\ Count(streamChat(yielded), "citations") = 0
    /\ ~srv.failed => ErrorTokens(Emitted) = {}

\* C6 witness: the LLM failed after streaming a token; the client has the
\* whole stream.
C6_Witness ==
    /\ srv.failed
    /\ srv.phase = "closed"
    /\ spc = "returned"
    /\ Count(yielded, "token") = 2

\* ------------------------------------------------------------------------
\* Task manager (design document 4.9) and the Data tab's task cards
\* ------------------------------------------------------------------------
\* An admission test that finds no kind busy.
Busy_Never(k) == FALSE

\* Single-flight admission: a kind is busy while a task of it is running.
Busy(k) == tasks[k] # <<>>

\* Ghost: what the task manager decided on the start it was asked for last.
Decide(k, by, result) ==
    lastStart' = [kind |-> k, by |-> by, busy |-> tasks[k] # <<>>, result |-> result]

\* DataTab.handleSync up to the request: no-op while syncState is running.
handleSync ==
    /\ taskState["sync"] # "running"
    /\ ~reindexDialog
    /\ taskState' = [taskState EXCEPT !["sync"] = "running"]
    /\ inflight' = inflight \cup {"sync"}
    /\ UNCHANGED <<tasks, reindexDialog, autoSync, lastStart, outsideTasks>>

\* DataTab.handleImport up to the request: no-op while importState is running.
handleImport ==
    /\ taskState["import"] # "running"
    /\ ~reindexDialog
    /\ taskState' = [taskState EXCEPT !["import"] = "running"]
    /\ inflight' = inflight \cup {"import"}
    /\ UNCHANGED <<tasks, reindexDialog, autoSync, lastStart, outsideTasks>>

\* DataTab.handleReindex: shows the confirmation dialog unless running.
handleReindex ==
    /\ taskState["reindex"] # "running"
    /\ ~reindexDialog
    /\ reindexDialog' = TRUE
    /\ UNCHANGED <<tasks, inflight, taskState, autoSync, lastStart, outsideTasks>>

\* DataTab.confirmReindex up to the request: closes the dialog, sets running.
confirmReindex ==
    /\ reindexDialog
    /\ reindexDialog' = FALSE
    /\ taskState' = [taskState EXCEPT !["reindex"] = "running"]
    /\ inflight' = inflight \cup {"reindex"}
    /\ UNCHANGED <<tasks, autoSync, lastStart, outsideTasks>>

\* The dialog's Cancel button.
cancelReindex ==
    /\ reindexDialog
    /\ reindexDialog' = FALSE
    /\ UNCHANGED <<tasks, inflight, taskState, autoSync, lastStart, outsideTasks>>

\* The page is loaded anew: DataTab's state starts over, its streams are gone;
\* the tasks of the back end run on.
Reload ==
    /\ taskState' = [k \in TaskKinds |-> "idle"]
    /\ reindexDialog' = FALSE
    /\ inflight' = {}
    /\ tasks' = [k \in TaskKinds |->
                    [i \in 1 .. Len(tasks[k]) |->
                        IF tasks[k][i] = "ui" THEN "detached" ELSE tasks[k][i]]]
    /\ UNCHANGED <<autoSync, lastStart, outsideTasks>>

\* The task manager answers a start request of the UI: Conflict for a busy
\* kind (apiStream throws on the non-2xx response, the handler's catch sets
\* status error), else a task is created and streams its progress to the UI.
TmStart(k) ==
    /\ k \in inflight
    /\ inflight' = inflight \ {k}
    /\ IF Busy(k)
       THEN /\ Decide(k, "ui", "conflict")
            /\ taskState' = [taskState EXCEPT ![k] = "error"]
            /\ UNCHANGED tasks
       ELSE /\ Decide(k, "ui", "started")
            /\ tasks' = [tasks EXCEPT ![k] = Append(@, "ui")]
            /\ UNCHANGED taskState
    /\ UNCHANGED <<reindexDialog, autoSync, outsideTasks>>

\* The auto-sync timer fires: a no-op if a sync is running, else a sync task
\* with no subscriber.
TimerTick ==
    /\ autoSync
    /\ IF Busy("sync")
       THEN /\ Decide("sync", "timer", "noop")
            /\ UNCHANGED tasks
       ELSE /\ Decide("sync", "timer", "started")
            /\ tasks' = [tasks EXCEPT !["sync"] = Append(@, "timer")]
    /\ UNCHANGED <<inflight, taskState, reindexDialog, autoSync, outsideTasks>>

\* How a task's stream can end for the handler that reads it: with a done
\* event; with the failure sent as one event of type "error" and the body
\* closed after it; with the body closed and no done event; or with read()
\* rejecting (the connection broke), which the for-await loop throws.
StreamEnds == {"done", "error_event", "closed", "threw"}

\* What the handler's event loop leaves in the card's status when the stream
\* of kind k ends: only progress and done events are looked at, only a throw
\* reaches the catch, and only handleImport looks at the status after the loop.
AfterStream(k, end) ==
    IF end = "done" THEN "success"
    ELSE IF end = "threw" THEN "error"
    ELSE IF k = "import" THEN "idle"
    ELSE "running"

\* A task ends (completed, cancelled at a checkpoint, or failed); its
\* subscriber, if the UI still listens, sees the end of the stream.
TaskFinish(k) ==
    /\ tasks[k] # <<>>
    /\ tasks' = [tasks EXCEPT ![k] = Tail(@)]
    /\ \E end \in StreamEnds :
        taskState' = IF Head(tasks[k]) = "ui"
                     THEN [taskState EXCEPT ![k] = AfterStream(k, end)]
                     ELSE taskState
    /\ UNCHANGED <<inflight, reindexDialog, autoSync, lastStart, outsideTasks>>

StreamIdle ==
    /\ lines = <<>>
    /\ sep = CrLfCrLf
    /\ wire = <<>>
    /\ closed = FALSE
    /\ buffer = <<>>
    /\ yielded = <<>>
    /\ spc = "reading"
    /\ srv = SrvIdle

TasksInit ==
    /\ StreamIdle
    /\ tasks = [k \in TaskKinds |-> <<>>]
    /\ inflight = {}
    /\ taskState = [k \in TaskKinds |-> "idle"]
    /\ reindexDialog = FALSE
    /\ autoSync \in BOOLEAN
    /\ lastStart = [kind |-> "none", by |-> "none", busy |-> FALSE, result |-> "none"]
    /\ StoreIdle
    /\ FnIdle
    /\ PanelsIdle

TasksNext ==
    \/ handleSync
    \/ handleImport
    \/ handleReindex
    \/ confirmReindex
    \/ cancelReindex
    \/ Reload
    \/ \E k \in TaskKinds : TmStart(k)
    \/ TimerTick
    \/ \E k \in TaskKinds : TaskFinish(k)

SpecTasks == TasksInit /\ [][TasksNext]_vars

\* C4: at every moment at most one task of each kind (sync, import, reindex)
\* is running; a start request for a kind that is running creates no task: the
\* UI's request is rejected with Conflict, the timer's is a no-op; a start
\* request for a kind that is not running is admitted.
C4_SingleFlight ==
    /\ \A k \in TaskKinds : Len(tasks[k]) <= 1
    /\ lastStart.busy =>
        lastStart.result = (IF lastStart.by = "ui" THEN "conflict" ELSE "noop")
    /\ lastStart.kind # "none" /\ ~lastStart.busy => lastStart.result = "started"

\* C4 witness: a sync started by the timer is running, and the UI's start
\* request for a sync, sent by handleSync, has just been rejected.
C4_Witness ==
    /\ tasks["sync"] = <<"timer">>
    /\ lastStart = [kind |-> "sync", by |-> "ui", busy |-> TRUE, result |-> "conflict"]
    /\ taskState["sync"] = "error"

\* ------------------------------------------------------------------------
\* Back-end pipeline (design document 3, 4.1 - 4.7): durable store, vector
\* store, chunker, ingest, delete-chat, reindex, retrieval.  Operations that
\* write the store (ingest, delete-chat, set-included, reindex) are taken one
\* at a time; a retrieve runs concurrently with any of them.
\* ------------------------------------------------------------------------
SourceOrder == <<"A", "B">>
Queries == {"q1", "q2"}

GAP_BREAK == 240        \* minutes (4h)
GAP_JOIN == 20          \* minutes
ChunkTarget == 3        \* chunk_target setting, tokens
ChunkMax == 4           \* chunk_max setting, tokens
ChunkOverlap == 1       \* chunk_overlap setting, tokens
EmbedBatchSize == 1     \* chunks per embed batch
TopK == 2               \* top_k setting
ContextCap == 3         \* context_cap setting, tokens

Msg(c, i, ts, text) == [chat |-> c, id |-> i, ts |-> ts, text |-> text]

\* The message source: static, the same on every run.  Chat A holds two
\* messages a minute apart, chat B two messages five hours apart.
Source(c) ==
    IF c = "A"
    THEN <<Msg("A", 1, 0, <<"hi">>), Msg("A", 2, 1, <<"how", "are">>)>>
    ELSE <<Msg("B", 1, 0, <<"x">>), Msg("B", 2, 300, <<"y">>)>>

SeqRange(s) == {s[i] : i \in 1 .. Len(s)}

Min(a, b) == IF a <= b THEN a ELSE b

\* ---- chunker (4.5) ----
EmptyCur == [text |-> <<>>, n |-> 0, start_ts |-> 0, end_ts |-> 0]

LastTokens(text, k) == SubSeq(text, Len(text) - Min(k, Len(text)) + 1, Len(text))

Seal(cur) ==
    IF cur.text = <<>> THEN <<>>
    ELSE <<[text |-> cur.text, start_ts |-> cur.start_ts, end_ts |-> cur.end_ts]>>

\* Rules 1 and 2 with a gap of exactly GAP_BREAK not counted as a break.
TimeSeal_Strict(cur, m, cfg) ==
    /\ cur.text # <<>>
    /\ \/ m.ts - cur.end_ts > GAP_BREAK
       \/ m.ts - cur.end_ts > GAP_JOIN /\ Len(cur.text) >= cfg.target

\* Rules 1 and 2: the open chunk is sealed on a long gap, or on a medium gap
\* once it has reached the target size.
TimeSeal(cur, m, cfg) ==
    /\ cur.text # <<>>
    /\ \/ m.ts - cur.end_ts >= GAP_BREAK
       \/ m.ts - cur.end_ts > GAP_JOIN /\ Len(cur.text) >= cfg.target

\* Rule 3: appending the message would push the chunk above chunk_max.
SizeSeal(cur, m, cfg) == Len(cur.text) + Len(m.text) > cfg.max

\* Rule 4: append, extending end_ts.
AppendMsg(cur, m) ==
    [text |-> cur.text \o m.text,
     n |-> cur.n + 1,
     start_ts |-> IF cur.n = 0 THEN m.ts ELSE cur.start_ts,
     end_ts |-> m.ts]

RECURSIVE ChunkFrom(_, _, _)
ChunkFrom(ms, cur, cfg) ==
    IF ms = <<>> THEN Seal(cur)
    ELSE LET m == Head(ms)
             t == TimeSeal(cur, m, cfg)
             c1 == IF t THEN EmptyCur ELSE cur
             s == SizeSeal(c1, m, cfg)
             c2 == IF s THEN [EmptyCur EXCEPT !.text = LastTokens(c1.text, cfg.overlap)]
                   ELSE c1
         IN  (IF t THEN Seal(cur) ELSE <<>>)
             \o (IF s THEN Seal(c1) ELSE <<>>)
             \o ChunkFrom(Tail(ms), AppendMsg(c2, m), cfg)

\* The chunker under the settings snapshot cfg = [target, max, overlap].
ChunkWith(ms, cfg) == ChunkFrom(ms, EmptyCur, cfg)

Settings == [target |-> ChunkTarget, max |-> ChunkMax, overlap |-> ChunkOverlap]

Chunker(ms) == ChunkWith(ms, Settings)

\* content_hash: a stable hash of the text; equal exactly for equal texts.
Hash(text) == text

\* ---- durable store (4.1) ----
\* list_messages(chat_id): the chat's stored messages by timestamp ascending.
RECURSIVE SortMsgs(_)
SortMsgs(ms) ==
    IF ms = {} THEN <<>>
    ELSE LET m == CHOOSE x \in ms : \A y \in ms : x.ts < y.ts \/ (x.ts = y.ts /\ x.id <= y.id)
         IN  <<m>> \o SortMsgs(ms \ {m})

ListMessages(c) == SortMsgs({m \in messages : m.chat = c})

\* insert_message on a batch that keeps duplicates.
NewMessages_All(batch) == batch

\* insert_message on a batch: a message whose (chat_id, message_id) is stored
\* is a silent skip.
NewMessages(batch) ==
    {m \in batch : ~\E x \in messages : x.chat = m.chat /\ x.id = m.id}

UsedIds(chs) ==
    {ch.id : ch \in chs} \cup {v.id : v \in live.vecs} \cup {v.id : v \in temp.vecs}

FreshId(chs) ==
    CHOOSE i \in 1 .. Cardinality(UsedIds(chs)) + 1 :
        i \notin UsedIds(chs) /\ \A j \in 1 .. i - 1 : j \in UsedIds(chs)

\* insert_chunk for each sealed chunk in order: duplicate-by-hash is skipped.
RECURSIVE InsertChunks(_, _, _)
InsertChunks(chs, c, sealed) ==
    IF sealed = <<>> THEN chs
    ELSE LET s == Head(sealed)
             known == \E ch \in chs : Hash(ch.text) = Hash(s.text)
             row == [id |-> FreshId(chs), chat |-> c, text |-> s.text,
                     start_ts |-> s.start_ts, end_ts |-> s.end_ts,
                     embedded |-> FALSE]
         IN  InsertChunks(IF known THEN chs ELSE chs \cup {row}, c, Tail(sealed))

\* The chunk stage over the chats that got new messages, in source order.
RECURSIVE ChunkChats(_, _, _)
ChunkChats(chs, cs, fresh) ==
    IF cs = <<>> THEN chs
    ELSE LET c == Head(cs)
             next == IF c \in fresh
                     THEN InsertChunks(chs, c, Chunker(ListMessages(c)))
                     ELSE chs
         IN  ChunkChats(next, Tail(cs), fresh)

\* list_pending_chunks(limit): embedded = false, lowest chunk ids first.
RECURSIVE LowestIds(_, _)
LowestIds(chs, n) ==
    IF n = 0 \/ chs = {} THEN {}
    ELSE LET c == CHOOSE x \in chs : \A y \in chs : x.id <= y.id
         IN  {c} \cup LowestIds(chs \ {c}, n - 1)

Pending == {ch \in chunks : ~ch.embedded}

ListPendingChunks(limit) == LowestIds(Pending, limit)

\* delete_chat that leaves the chat's messages behind.
DeletedMessages_None(c) == {}

\* delete_chat: the chat's messages.
DeletedMessages(c) == {m \in messages : m.chat = c}

Hashes(c) == {Hash(ch.text) : ch \in {x \in chunks : x.chat = c}}

\* ---- vector store (4.2) ----
Vec(ch) == [id |-> ch.id, chat |-> ch.chat, start_ts |-> ch.start_ts, text |-> ch.text]

Ids(vecs) == {v.id : v \in vecs}

\* Similarity of a stored text to a query: q1 is closest to chat B's chunks,
\* q2 to chat A's.
Sim(q, text) ==
    LET b == Head(text) \in {"x", "y"}
        r == IF Head(text) \in {"x", "hi"} THEN 1 ELSE 0
    IN  IF (q = "q1") = b THEN 2 + r ELSE r

\* query without the where predicate.
Where_All(mask, vecs) == vecs

\* query's where predicate: chat_id IN mask.
Where(mask, vecs) == {v \in vecs : v.chat \in mask}

\* query(embedding, k, where): up to k records, nearest first.
RECURSIVE Nearest(_, _, _)
Nearest(vecs, q, k) ==
    IF k = 0 \/ vecs = {} THEN <<>>
    ELSE LET v == CHOOSE x \in vecs : \A y \in vecs :
                    Sim(q, x.text) > Sim(q, y.text)
                    \/ (Sim(q, x.text) = Sim(q, y.text) /\ x.id <= y.id)
         IN  <<v>> \o Nearest(vecs \ {v}, q, k - 1)

\* ---- retrieval (4.7) ----
\* Step 4: sort by start_ts ascending, keeping the order of equal start_ts.
RECURSIVE InsertByStart(_, _)
InsertByStart(sorted, r) ==
    IF sorted = <<>> THEN <<r>>
    ELSE IF Head(sorted).start_ts <= r.start_ts
         THEN <<Head(sorted)>> \o InsertByStart(Tail(sorted), r)
         ELSE <<r>> \o sorted

RECURSIVE SortByStart(_)
SortByStart(recs) ==
    IF recs = <<>> THEN <<>>
    ELSE InsertByStart(SortByStart(SubSeq(recs, 1, Len(recs) - 1)), recs[Len(recs)])

\* Assembly that stops at the first record that would overflow.
RECURSIVE Assemble_StopAtOverflow(_, _)
Assemble_StopAtOverflow(recs, used) ==
    IF recs = <<>> THEN <<>>
    ELSE LET r == Head(recs)
         IN  IF used + Len(r.text) > ContextCap
             THEN <<>>
             ELSE <<r>> \o Assemble_StopAtOverflow(Tail(recs), used + Len(r.text))

\* Step 5: greedy assembly under the token cap; a record that would overflow
\* is skipped and assembly continues.
RECURSIVE Assemble(_, _)
Assemble(recs, used) ==
    IF recs = <<>> THEN <<>>
    ELSE LET r == Head(recs)
         IN  IF used + Len(r.text) > ContextCap
             THEN Assemble(Tail(recs), used)
             ELSE <<r>> \o Assemble(Tail(recs), used + Len(r.text))

Included == {c \in ChatIds : included[c]}

\* Ghost: what a query finds in place of the live collection.
Seen ==
    IF ~live.present THEN "missing"
    ELSE IF live.vecs = rx.pre THEN "pre"
    ELSE IF live.vecs = {Vec(ch) : ch \in chunks} THEN "post"
    ELSE "other"

\* Steps 1-2: the inclusion mask; empty mask, empty result.
RetrieveStart(q) ==
    /\ rt.pc = "idle"
    /\ rt' = [RtIdle EXCEPT !.pc = IF Included = {} THEN "done" ELSE "query",
                            !.q = q, !.mask = Included]
    /\ UNCHANGED <<included, messages, chunks, live, temp, run, rx, hist, outsideStore>>

\* Steps 3-6: query the live collection, sort, assemble.  A missing
\* collection is a vector-store error: the result is empty.
RetrieveQuery ==
    /\ rt.pc = "query"
    /\ rt' = [rt EXCEPT
                !.pc = "done",
                !.result = IF live.present
                           THEN Assemble(SortByStart(
                                    Nearest(Where(rt.mask, live.vecs), rt.q, TopK)), 0)
                           ELSE <<>>,
                !.during = rx.pc \in {"embedding", "deleting", "renaming", "swapped"},
                !.had = rx.pre # {},
                !.saw = Seen]
    /\ UNCHANGED <<included, messages, chunks, live, temp, run, rx, hist, outsideStore>>

RetrieveReturn ==
    /\ rt.pc = "done"
    /\ rt' = RtIdle
    /\ UNCHANGED <<included, messages, chunks, live, temp, run, rx, hist, outsideStore>>

\* ---- ingest (4.6) ----
\* A retrieve's result is not shared state: it is handed to the caller in the
\* step after the query, before anything else is scheduled.
Sched == rt.pc # "done"

WritersIdle == run.pc = "idle" /\ rx.pc = "idle"

IngestStart ==
    /\ Sched
    /\ WritersIdle
    /\ run' = [RunIdle EXCEPT !.pc = "persist", !.queue = SourceOrder,
                              !.status = "running", !.second = hist.prev.valid]
    /\ UNCHANGED <<included, messages, chunks, live, temp, rx, rt, hist, outsideStore>>

\* Fetch + persist of one batch, the next chat's messages; a chat that is
\* excluded is not synced.
PersistBatch ==
    /\ Sched
    /\ run.pc = "persist"
    /\ run.queue # <<>>
    /\ LET c == Head(run.queue)
           batch == IF included[c] THEN SeqRange(Source(c)) ELSE {}
           new == NewMessages(batch)
       IN  /\ messages' = messages \cup new
           /\ run' = [run EXCEPT
                        !.queue = Tail(@),
                        !.fresh = IF new = {} THEN @ ELSE @ \cup {c},
                        !.inserted = @ + Cardinality(new),
                        !.pc = IF Tail(run.queue) = <<>> THEN "chunk" ELSE "persist"]
    /\ UNCHANGED <<included, chunks, live, temp, rx, rt, hist, outsideStore>>

\* Chunk stage: only chats with new messages.
ChunkStage ==
    /\ Sched
    /\ run.pc = "chunk"
    /\ chunks' = ChunkChats(chunks, SourceOrder, run.fresh)
    /\ run' = [run EXCEPT !.pc = "embed",
                          !.created = Cardinality(chunks') - Cardinality(chunks)]
    /\ UNCHANGED <<included, messages, live, temp, rx, rt, hist, outsideStore>>

\* Embed stage, one batch: upsert the vectors and mark the chunks embedded in
\* one transaction; with nothing pending the run ends in success.
EmbedBatch ==
    /\ Sched
    /\ run.pc = "embed"
    /\ LET batch == ListPendingChunks(EmbedBatchSize)
       IN  IF batch = {}
           THEN /\ run' = [run EXCEPT !.pc = "ended", !.status = "success"]
                /\ UNCHANGED <<chunks, live>>
           ELSE /\ live' = Collection(live.vecs \cup {Vec(ch) : ch \in batch})
                /\ chunks' = (chunks \ batch)
                                \cup {[ch EXCEPT !.embedded = TRUE] : ch \in batch}
                /\ UNCHANGED run
    /\ UNCHANGED <<included, messages, temp, rx, rt, hist, outsideStore>>

\* An embed batch fails (embedding endpoint error after the retries): nothing
\* of the batch is committed, the pending chunks stay pending.
EmbedBatchFail ==
    /\ Sched
    /\ run.pc = "embed"
    /\ Pending # {}
    /\ run' = [run EXCEPT !.pc = "ended", !.status = "error"]
    /\ UNCHANGED <<included, messages, chunks, live, temp, rx, rt, hist, outsideStore>>

\* A cancel that rolls the run's work back.
IngestCancel_RollsBack ==
    /\ Sched
    /\ run.pc \in {"persist", "chunk", "embed"}
    /\ run' = [run EXCEPT !.pc = "ended", !.status = "cancelled"]
    /\ messages' = {}
    /\ UNCHANGED <<included, chunks, live, temp, rx, rt, hist, outsideStore>>

\* Cancel, seen at a batch boundary: committed work stays.
IngestCancel ==
    /\ Sched
    /\ run.pc \in {"persist", "chunk", "embed"}
    /\ run' = [run EXCEPT !.pc = "ended", !.status = "cancelled"]
    /\ UNCHANGED <<included, messages, chunks, live, temp, rx, rt, hist, outsideStore>>

\* The terminal counts event (marked cancelled after a cancel); the log entry
\* is closed with the run's status and the count of messages it added.
IngestEnd ==
    /\ Sched
    /\ run.pc = "ended"
    /\ run' = RunIdle
    /\ hist' = [prev |-> [valid |-> TRUE, ok |-> run.status = "success",
                          msgs |-> messages, chunks |-> {ch.id : ch \in chunks},
                          vecs |-> Ids(live.vecs),
                          status |-> run.status, messages_added |-> run.inserted],
                del |-> NoDel]
    /\ UNCHANGED <<included, messages, chunks, live, temp, rx, rt, outsideStore>>

\* ---- chat management ----
\* DELETE /chats/{id}: messages, chunks and vectors go, the chat is marked
\* excluded.
DeleteChat(c) ==
    /\ Sched
    /\ WritersIdle
    /\ \E m \in messages : m.chat = c
    /\ messages' = messages \ DeletedMessages(c)
    /\ chunks' = {ch \in chunks : ch.chat # c}
    /\ live' = Collection({v \in live.vecs : v.id \notin {ch.id : ch \in chunks \ chunks'}})
    /\ included' = [included EXCEPT ![c] = FALSE]
    /\ hist' = [prev |-> NoPrev, del |-> [chat |-> c, hashes |-> Hashes(c)]]
    /\ UNCHANGED <<temp, run, rx, rt, outsideStore>>

\* PUT /chats/{id}: set_included.
SetIncluded(c, b) ==
    /\ Sched
    /\ WritersIdle
    /\ included[c] # b
    /\ included' = [included EXCEPT ![c] = b]
    /\ hist' = [hist EXCEPT !.prev = NoPrev]
    /\ UNCHANGED <<messages, chunks, live, temp, run, rx, rt, outsideStore>>

\* ---- reindex (4.6, 4.2; ARCHITECTURE.md, Embedding) ----
\* reindex that embeds only the chunks still pending.
ReindexTargets_PendingOnly == {ch \in chunks : ~ch.embedded}

\* "Embed all chunks": every chunk of the store, whatever its embedded flag.
ReindexTargets == chunks

\* Chunks not yet in the temp collection.
ReindexTodo == {ch \in ReindexTargets : ch.id \notin Ids(temp.vecs)}

\* A fresh temp collection is created (a stale one is dropped).
ReindexStart ==
    /\ Sched
    /\ WritersIdle
    /\ temp' = Collection({})
    /\ rx' = [pc |-> "embedding", pre |-> live.vecs]
    /\ hist' = [hist EXCEPT !.prev = NoPrev]
    /\ UNCHANGED <<included, messages, chunks, live, run, rt, outsideStore>>

\* Step 1, one batch: embed into the temp collection; the store is not
\* written.  With every chunk in temp the swap begins.
ReindexEmbed ==
    /\ Sched
    /\ rx.pc = "embedding"
    /\ IF ReindexTodo = {}
       THEN /\ rx' = [rx EXCEPT !.pc = "deleting"]
            /\ UNCHANGED temp
       ELSE /\ temp' = Collection(temp.vecs
                          \cup {Vec(ch) : ch \in LowestIds(ReindexTodo, EmbedBatchSize)})
            /\ UNCHANGED rx
    /\ UNCHANGED <<included, messages, chunks, live, run, rt, hist, outsideStore>>

\* An embed batch fails, or the task is cancelled between batches: the temp
\* collection is dropped.
ReindexFail ==
    /\ Sched
    /\ rx.pc = "embedding"
    /\ ReindexTodo # {}
    /\ temp' = Absent
    /\ rx' = [rx EXCEPT !.pc = "failed"]
    /\ UNCHANGED <<included, messages, chunks, live, run, rt, hist, outsideStore>>

\* Step 2: delete the live collection.
ReindexDeleteLive ==
    /\ Sched
    /\ rx.pc = "deleting"
    /\ live' = Absent
    /\ rx' = [rx EXCEPT !.pc = "renaming"]
    /\ UNCHANGED <<included, messages, chunks, temp, run, rt, hist, outsideStore>>

\* Step 3: rename the temp collection to the live name.
ReindexRename ==
    /\ Sched
    /\ rx.pc = "renaming"
    /\ live' = temp
    /\ temp' = Absent
    /\ rx' = [rx EXCEPT !.pc = "swapped"]
    /\ UNCHANGED <<included, messages, chunks, run, rt, hist, outsideStore>>

\* The terminal event; the log entry is closed.
ReindexFinish ==
    /\ Sched
    /\ rx.pc \in {"swapped", "failed"}
    /\ rx' = RxIdle
    /\ UNCHANGED <<included, messages, chunks, live, temp, run, rt, hist, outsideStore>>

BackendInit == StreamIdle /\ TasksIdle /\ StoreIdle /\ FnIdle /\ PanelsIdle

BackendNext ==
    \/ IngestStart
    \/ PersistBatch
    \/ ChunkStage
    \/ EmbedBatch
    \/ EmbedBatchFail
    \/ IngestCancel
    \/ IngestEnd
    \/ \E c \in ChatIds : DeleteChat(c)
    \/ \E c \in ChatIds, b \in BOOLEAN : SetIncluded(c, b)
    \/ ReindexStart
    \/ ReindexEmbed
    \/ ReindexFail
    \/ ReindexDeleteLive
    \/ ReindexRename
    \/ ReindexFinish
    \/ \E q \in Queries : RetrieveStart(q)
    \/ RetrieveQuery
    \/ RetrieveReturn

SpecBackend == BackendInit /\ [][BackendNext]_vars

\* C1: whenever no ingest and no reindex is in progress (after any sequence of
\* ingest embed batches, failed and cancelled ones included, reindex runs and
\* delete-chat operations), a vector keyed by a chunk's chunk_id is in the
\* live collection if and only if the chunk has embedded = true.
C1_VectorIffEmbedded ==
    WritersIdle =>
        /\ live.present
        /\ \A ch \in chunks : (ch.id \in Ids(live.vecs)) <=> ch.embedded

\* C2: a retrieve whose query runs while a reindex is replacing the live
\* collection finds the complete pre-reindex collection or the complete
\* post-reindex one, never a missing or empty one, provided the collection
\* held a vector before the reindex.
C2_RetrieveSeesPreOrPost ==
    rt.pc = "done" /\ rt.during /\ rt.had => rt.saw \in {"pre", "post"}

\* C3: no record of a chat that was excluded when the retrieve computed its
\* inclusion mask is in the retrieval result (the kept records, from which
\* contexts and citations are produced), however similar to the query.
C3_ExcludedNeverRetrieved ==
    \A i \in 1 .. Len(rt.result) : rt.result[i].chat \in rt.mask

\* C3 witness: a retrieve has returned a record while the excluded chat B has
\* an embedded chunk more similar to the query than every included chunk.
C3_Witness ==
    /\ rt.pc = "done"
    /\ rt.result # <<>>
    /\ rt.mask = {"A"}
    /\ ~included["B"]
    /\ WritersIdle
    /\ \E v \in live.vecs :
        /\ v.chat = "B"
        /\ \A w \in live.vecs : w.chat = "A" => Sim(rt.q, v.text) > Sim(rt.q, w.text)

SameAsPrev ==
    /\ run.inserted = 0
    /\ run.created = 0
    /\ messages = hist.prev.msgs
    /\ {ch.id : ch \in chunks} = hist.prev.chunks
    /\ Ids(live.vecs) = hist.prev.vecs

Restored == Hashes(hist.del.chat) = hist.del.hashes

MaxMsgs == 3        \* messages in a chat handed to the chunker

\* Token counts of a message: below, at and above the smallest chunk_max.
MsgLens == {1, 2, 3}

\* Gaps between consecutive messages, minutes: within GAP_JOIN, between
\* GAP_JOIN and GAP_BREAK, exactly GAP_BREAK, beyond it.
Gaps == {1, 120, GAP_BREAK, 300}

\* Settings snapshots: chunk_target below, at and above chunk_max (the sliders
\* allow each), chunk_overlap below chunk_max.
ChunkSettings == [target : 1 .. 3, max : 2 .. 3, overlap : 0 .. 1]

RECURSIVE SumTo(_, _)
SumTo(f, n) == IF n = 0 THEN 0 ELSE f[n] + SumTo(f, n - 1)

\* Messages of one chat in chronological order, with the given token counts
\* and the given gaps between neighbours.
MkMsgs(lens, gaps) ==
    [i \in 1 .. Len(lens) |->
        Msg("A", i, SumTo(gaps, i - 1), [j \in 1 .. lens[i] |-> "w"])]

MsgSeqs ==
    UNION { {MkMsgs(lens, gaps) : lens \in [1 .. n -> MsgLens],
                                  gaps \in [1 .. n - 1 -> Gaps]}
            : n \in 1 .. MaxMsgs }

ChunkerInit ==
    /\ StreamIdle
    /\ TasksIdle
    /\ StoreIdle
    /\ PanelsIdle
    /\ arg \in [fn : {"chunker"}, msgs : MsgSeqs, cfg : ChunkSettings]
    /\ res = NotApplied

ChunkerRun ==
    /\ arg.fn = "chunker"
    /\ ~res.done
    /\ res' = [done |-> TRUE, out |-> ChunkWith(arg.msgs, arg.cfg)]
    /\ UNCHANGED <<arg, outsideFn>>

ChunkerNext == ChunkerRun

SpecChunker == ChunkerInit /\ [][ChunkerNext]_vars

\* A chunk that holds both the i-th message and the next one.
Spans(ch, i) == ch.start_ts <= arg.msgs[i].ts /\ ch.end_ts >= arg.msgs[i + 1].ts

BreakPairs ==
    {i \in 1 .. Len(arg.msgs) - 1 : arg.msgs[i + 1].ts - arg.msgs[i].ts >= GAP_BREAK}

SealedAtBreaks ==
    \A i \in BreakPairs : \A k \in 1 .. Len(res.out) : ~Spans(res.out[k], i)

\* C11 as stated: the chunker seals at every gap of at least GAP_BREAK
\* (exactly GAP_BREAK included), whatever the token count, and so no chunk
\* holds two messages that are GAP_BREAK or more apart.
C11_NoChunkSpansFourHours ==
    res.done =>
        /\ SealedAtBreaks
        /\ \A k \in 1 .. Len(res.out) :
            res.out[k].end_ts - res.out[k].start_ts < GAP_BREAK

\* C11 amended: the chunker seals at every gap of at least GAP_BREAK (exactly
\* GAP_BREAK included) between a message and the next, whatever the token
\* count: two consecutive messages that far apart are never in one chunk.
C11_SealsAtGapBreak ==
    res.done => SealedAtBreaks

\* C11 witness: two one-token messages exactly GAP_BREAK apart, under a target
\* the open chunk has not reached, came out as two chunks.
C11_Witness ==
    /\ res.done
    /\ Len(arg.msgs) = 2
    /\ arg.msgs[2].ts - arg.msgs[1].ts = GAP_BREAK
    /\ Len(arg.msgs[1].text) < arg.cfg.target
    /\ Len(res.out) = 2

\* C12: every chunk the chunker emits has at most chunk_max tokens, for every
\* message sequence and every setting of chunk_target, chunk_max and
\* chunk_overlap.
C12_NoChunkAboveMax ==
    res.done => \A k \in 1 .. Len(res.out) : Len(res.out[k].text) <= arg.cfg.max

\* ------------------------------------------------------------------------
\* Context assembly as a function of the records the query returned
\* ------------------------------------------------------------------------
MaxRecs == 3        \* records a query returns

\* Step 6: one citation per record kept in the context, in order.
Citations(kept) ==
    [i \in 1 .. Len(kept) |->
        [chunk_id |-> kept[i].id, chat |-> kept[i].chat, start_ts |-> kept[i].start_ts]]

\* Steps 4-6 of retrieve on the records the query returned (nearest first).
AssembleContext(recs) ==
    LET kept == Assemble(SortByStart(recs), 0)
    IN  [kept |-> kept, citations |-> Citations(kept)]

\* Query results: distinct chunks, nearest first, any dates, any sizes.
RecSeqs ==
    UNION { {[i \in 1 .. n |->
                [id |-> i, chat |-> "A", start_ts |-> ts[i],
                 text |-> [j \in 1 .. lens[i] |-> "w"]]]
             : ts \in [1 .. n -> 0 .. 2], lens \in [1 .. n -> MsgLens]}
            : n \in 0 .. MaxRecs }

AssembleInit ==
    /\ StreamIdle
    /\ TasksIdle
    /\ StoreIdle
    /\ PanelsIdle
    /\ arg \in [fn : {"assemble"}, recs : RecSeqs]
    /\ res = NotApplied

AssembleRun ==
    /\ arg.fn = "assemble"
    /\ ~res.done
    /\ res' = [done |-> TRUE, out |-> AssembleContext(arg.recs)]
    /\ UNCHANGED <<arg, outsideFn>>

AssembleNext == AssembleRun

SpecAssemble == AssembleInit /\ [][AssembleNext]_vars

Tokens(recs) == SumTo([i \in 1 .. Len(recs) |-> Len(recs[i].text)], Len(recs))

\* The input in display order: by start_ts, equal dates in the order returned.
ByDate == SortByStart(arg.recs)

KeptIds == {res.out.kept[i].id : i \in 1 .. Len(res.out.kept)}

\* Tokens of the records kept among the first i - 1 in display order.
UsedBefore(i) ==
    Tokens(SelectSeq(SubSeq(ByDate, 1, i - 1), LAMBDA r : r.id \in KeptIds))

\* C13: the context is assembled from the returned records in ascending
\* start_ts order; it never exceeds context_cap tokens; a record is left out
\* exactly when adding it at its turn would exceed the cap, later records
\* that fit being included; the citations are the kept records, in order.
C13_GreedyAssembly ==
    res.done =>
        /\ \A i, j \in 1 .. Len(res.out.kept) :
            i < j => res.out.kept[i].start_ts <= res.out.kept[j].start_ts
        /\ res.out.kept = SelectSeq(ByDate, LAMBDA r : r.id \in KeptIds)
        /\ Tokens(res.out.kept) <= ContextCap
        /\ \A i \in 1 .. Len(ByDate) :
            ByDate[i].id \notin KeptIds
                <=> UsedBefore(i) + Len(ByDate[i].text) > ContextCap
        /\ Len(res.out.citations) = Len(res.out.kept)
        /\ \A i \in 1 .. Len(res.out.kept) :
            res.out.citations[i].chunk_id = res.out.kept[i].id

\* C13 witness: three records returned nearest first and not in date order;
\* the second by date would overflow and is left out, the third is kept.
C13_Witness ==
    /\ res.done
    /\ Len(arg.recs) = 3
    /\ arg.recs[1].start_ts > arg.recs[2].start_ts
    /\ Len(res.out.kept) = 2
    /\ res.out.kept[1] = ByDate[1]
    /\ res.out.kept[2] = ByDate[3]

\* ------------------------------------------------------------------------
\* Settings store, API gateway (design document 4.10, 6) and the Settings
\* tab's load and save (SettingsTab loadData, handleSave; api/client.ts)
\* ------------------------------------------------------------------------
Sensitive == {"api_key", "chat_api_key"}

Mask == "****"

\* A field that is not in a JSON body (undefined is dropped by JSON.stringify).
Missing == "undefined"

Secrets == {"", "k1"}
Models == {"m1", "m2"}

Stored(k) == IF k \in Sensitive THEN Secrets ELSE Models

\* What a user can type into the field of key k.
Typed(k) == IF k \in Sensitive THEN Secrets \cup {Mask} ELSE Models

\* GET /api/settings: a sensitive value that is set is returned as ****.
Masked(cfg) ==
    [k \in SettingKeys |-> IF k \in Sensitive /\ cfg[k] # "" THEN Mask ELSE cfg[k]]

\* A store that writes whatever it is sent.
StoreWrite_KeepsMask(cfg, upd) ==
    [k \in SettingKeys |-> IF upd[k] # Missing THEN upd[k] ELSE cfg[k]]

\* POST /api/settings: a partial update; the mask sent back for a sensitive
\* key is ignored, every other field replaces the stored value.
StoreWrite(cfg, upd) ==
    [k \in SettingKeys |->
        IF upd[k] = Missing \/ (k \in Sensitive /\ upd[k] = Mask)
        THEN cfg[k] ELSE upd[k]]

\* handleSave's loop over localSettings: a sensitive field goes into the
\* update unless it is **** or empty, every other field always.
UpdateData(localSettings) ==
    [k \in SettingKeys |->
        IF k \in Sensitive /\ localSettings[k] \in {Mask, ""}
        THEN Missing ELSE localSettings[k]]

\* The gateway's check of the Authorization header ("" is no header).
Authorized(cfg, auth) == cfg["api_key"] = "" \/ auth = cfg["api_key"]

\* The headers apiFetch and apiStream send: Content-Type only.
ClientAuth == ""

Request(path, stream, ui, auth, sent) ==
    [path |-> path, stream |-> stream, ui |-> ui, auth |-> auth,
     key |-> config["api_key"],
     status |-> IF Authorized(config, auth) THEN 200 ELSE 401,
     sent |-> sent, before |-> config]

NothingSent == [k \in SettingKeys |-> Missing]

\* The Settings tab mounts: getSettings() through apiFetch.
LoadData ==
    /\ ~settingsTab.loaded
    /\ ~settingsTab.error
    /\ http' = Request("GET /settings", FALSE, TRUE, ClientAuth, NothingSent)
    /\ settingsTab' =
        IF Authorized(config, ClientAuth)
        THEN [settingsTab EXCEPT !.loaded = TRUE, !.settings = Masked(config)]
        ELSE [settingsTab EXCEPT !.error = TRUE]
    /\ UNCHANGED <<config, outsideGateway>>

\* localSettings as the user's edits (setLocalSettings) can leave it before a
\* save: any field can be retyped, so every combination can be saved.
Forms == {f \in [SettingKeys -> Secrets \cup Models \cup {Mask}] :
            \A k \in SettingKeys : f[k] \in Typed(k)}

\* The user edits the form and saves.  handleSave: saveSettings(updateData),
\* then the form is refreshed from getSettings(); a failure of either request
\* lands in the catch (a toast).
HandleSave ==
    /\ settingsTab.loaded
    /\ \E localSettings \in Forms :
        LET upd == UpdateData(localSettings)
            ok == Authorized(config, ClientAuth)
            after == IF ok THEN StoreWrite(config, upd) ELSE config
        IN  /\ http' = Request("POST /settings", FALSE, TRUE, ClientAuth, localSettings)
            /\ config' = after
            /\ settingsTab' =
                 IF ok /\ Authorized(after, ClientAuth)
                 THEN [settingsTab EXCEPT !.settings = Masked(after), !.error = FALSE]
                 ELSE [settingsTab EXCEPT !.error = TRUE]
    /\ UNCHANGED outsideGateway

\* A data operation or a chat started from the UI: apiStream.
UiStream ==
    /\ \E path \in {"POST /sync", "POST /chat"} :
        http' = Request(path, TRUE, TRUE, ClientAuth, NothingSent)
    /\ UNCHANGED <<config, settingsTab, outsideGateway>>

Bodies == {b \in [SettingKeys -> Secrets \cup Models \cup {Mask, Missing}] :
             \A k \in SettingKeys : b[k] \in Typed(k) \cup {Missing}}

\* Another client of the API posts a partial update, with or without a key.
ApiPostSettings ==
    /\ \E auth \in Secrets : \E body \in Bodies :
        /\ http' = Request("POST /settings", FALSE, FALSE, auth, body)
        /\ config' = IF Authorized(config, auth) THEN StoreWrite(config, body)
                     ELSE config
    /\ UNCHANGED <<settingsTab, outsideGateway>>

\* Another client of the API sends a unary or a streaming request.
ApiRequest ==
    /\ \E auth \in Secrets : \E path \in {"GET /settings", "POST /chat"} :
        http' = Request(path, path = "POST /chat", FALSE, auth, NothingSent)
    /\ UNCHANGED <<config, settingsTab, outsideGateway>>

GatewayInit ==
    /\ StreamIdle
    /\ TasksIdle
    /\ StoreIdle
    /\ FnIdle
    /\ chatTab = ChatTabIdle
    /\ tg = TgIdle
    /\ HooksIdle
    /\ config \in {c \in [SettingKeys -> Secrets \cup Models] :
                     \A k \in SettingKeys : c[k] \in Stored(k)}
    /\ settingsTab = [loaded |-> FALSE, settings |-> [k \in SettingKeys |-> ""],
                      error |-> FALSE]
    /\ http = NoRequest

GatewayNext ==
    \/ LoadData
    \/ HandleSave
    \/ UiStream
    \/ ApiPostSettings
    \/ ApiRequest

SpecGateway == GatewayInit /\ [][GatewayNext]_vars

Saved == http.path = "POST /settings" /\ http.status = 200

\* C14: a save that writes **** to a sensitive setting leaves the stored value
\* as it was, whether the Settings tab dropped the field or the store
\* discarded it, and every non-sensitive field of the same save is written.
C14_MaskKeepsStoredValue ==
    Saved =>
        \A k \in SettingKeys :
            /\ k \in Sensitive /\ http.sent[k] = Mask => config[k] = http.before[k]
            /\ k \notin Sensitive /\ http.sent[k] # Missing => config[k] = http.sent[k]

\* C14 witness: a save from the Settings tab with a stored secret shown as
\* **** and a changed model: the secret is kept, the model is written.
C14_Witness ==
    /\ Saved
    /\ http.ui
    /\ http.sent["chat_api_key"] = Mask
    /\ http.before["chat_api_key"] = "k1"
    /\ config["chat_api_key"] = "k1"
    /\ http.before["chat_model"] = "m1"
    /\ config["chat_model"] = "m2"

\* C14 witness, the other way: the mask reached the store and was discarded.
C14_WitnessStoreDiscards ==
    /\ Saved
    /\ ~http.ui
    /\ http.sent["chat_api_key"] = Mask
    /\ http.before["chat_api_key"] = "k1"
    /\ config["chat_api_key"] = "k1"

\* C15: while the api_key setting is non-empty, every request under /api/,
\* unary or streaming, carries Authorization: Bearer <key>, the front end's
\* own requests included.
C15_EveryRequestCarriesKey ==
    http.ui /\ http.key # "" => http.auth = http.key

\* C15, the gateway's side: with a key set a request is accepted exactly if
\* it carries the key; with no key set every request is accepted.
C15_GatewayChecksKey ==
    http.path # "none" =>
        (http.status = 200 <=> (http.key = "" \/ http.auth = http.key))

\* ------------------------------------------------------------------------
\* Cancelling a sync
\* ------------------------------------------------------------------------
Cancelled == run.pc = "ended" /\ run.status = "cancelled"

\* C16: a cancelled sync stops at the batch boundary where the cancel is seen
\* and goes on to its terminal event only; the batches committed before the
\* cancel remain; the log entry it closes has status cancelled and the count
\* of the messages the run actually added.
C16_CancelKeepsCommitted ==
    [][/\ run'.status = "cancelled" /\ run.status = "running" =>
            /\ run'.pc = "ended"
            /\ run'.inserted = run.inserted
            /\ messages' = messages /\ chunks' = chunks /\ live' = live
       /\ run.pc # "idle" /\ run'.pc # "idle" =>
            /\ messages \subseteq messages'
            /\ run'.inserted - run.inserted = Cardinality(messages' \ messages)
       /\ Cancelled =>
            /\ messages' = messages /\ chunks' = chunks /\ live' = live
            /\ run' # run =>
                /\ run' = RunIdle
                /\ hist'.prev.status = "cancelled"
                /\ hist'.prev.messages_added = run.inserted
                /\ hist'.prev.msgs = messages
      ]_vars

\* C16 witness: a sync cancelled after its first batch has closed its log
\* entry: cancelled, two messages added, both still stored, chat B not synced.
C16_Witness ==
    /\ run.pc = "idle"
    /\ hist.prev.status = "cancelled"
    /\ hist.prev.messages_added = 2
    /\ Cardinality(messages) = 2
    /\ \A m \in messages : m.chat = "A"

\* ------------------------------------------------------------------------
\* The Data tab's cards over time
\* ------------------------------------------------------------------------
\* The task manager answers every start request, and every task ends: its
\* stream reaches the handler's loop one way or another.
TasksFairness ==
    /\ \A k \in TaskKinds : WF_vars(TmStart(k))
    /\ \A k \in TaskKinds : WF_vars(TaskFinish(k))

SpecTasksLive == SpecTasks /\ TasksFairness

\* C20: every data operation of the UI that is running eventually leaves
\* running (success on done, error on any failure of the request or stream).
C20_RunningEnds ==
    \A k \in TaskKinds : (taskState[k] = "running") ~> (taskState[k] # "running")

\* ------------------------------------------------------------------------
\* Event separators
\* ------------------------------------------------------------------------
\* C18: whichever separator the stream uses between events (\r\n\r\n, \n\n
\* or \r\r), apiStream delivers every event, in order, up to the done event.
C18_EverySeparatorDelivered ==
    /\ IsPrefix(yielded, CutAtDone(DataEvents(lines)))
    /\ spc \in {"returned", "ended"} => yielded = CutAtDone(DataEvents(lines))

\* ------------------------------------------------------------------------
\* Telegram authorization: TelegramAuthTab's handlers (api/settings.ts) and
\* the message source's session behind /api/telegram/*
\* ------------------------------------------------------------------------
Codes == {"right", "wrong"}

\* POST /telegram/auth/verify at the message source: the code must be the
\* one sent; an account with two-step verification also needs its password.
VerifyResult(state, twoFA, code, password) ==
    IF state # "phone_sent" THEN "error"
    ELSE IF code # "right" THEN "error"
    ELSE IF twoFA /\ ~password THEN "error"
    ELSE "connected"

\* Lengths of the phone field: empty, too short for the button, complete.
MaxPhone == 2

\* A run of the tab's status effect: getTelegramStatus() is requested by a
\* checkStatus whose closure holds `!phone` and `!authToken` of that render.
\* Requests with equal closures are not told apart.
StatusRequest(t) == [noPhone |-> t.phone = 0, noToken |-> ~t.authToken]

\* After a handler took the tab from `old` to `new`: the effect depends on
\* [phone, authToken] and runs again when either changed.
Effect(old, new) ==
    IF new.phone # old.phone \/ new.authToken # old.authToken
    THEN [new EXCEPT !.pending = @ \cup {StatusRequest(new)}]
    ELSE new

\* The Settings tab mounts: the effect's first run.
checkStatus ==
    /\ ~tg.mounted
    /\ tg' = [tg EXCEPT !.mounted = TRUE, !.pending = @ \cup {StatusRequest(tg)}]
    /\ UNCHANGED outsideTg

\* SettingsTab.handleSave asks for the status after saving and shows it;
\* nothing is restored from it.
SaveStatus ==
    /\ tg.mounted
    /\ tg' = [tg EXCEPT !.pending = @ \cup {[noPhone |-> FALSE, noToken |-> FALSE]}]
    /\ UNCHANGED outsideTg

\* The state a status answer makes the tab show.
StatusShown(t) == t.state

\* GET /telegram/status answers request r: the state is shown; in phone_sent
\* the phone and the token of the flow in progress are restored where the
\* answer has them and the closure had none.
StatusAnswer ==
    /\ \E r \in tg.pending : \E more \in BOOLEAN :
        LET restore == tg.state = "phone_sent" /\ tg.statusRestores
            shown == [tg EXCEPT
                        !.telegramStatus = StatusShown(tg),
                        !.phone = IF restore /\ r.noPhone THEN MaxPhone ELSE @,
                        !.authToken = IF restore /\ tg.issuesToken /\ r.noToken
                                      THEN TRUE ELSE @,
                        !.pending = IF more THEN @ ELSE @ \ {r}]
        IN  tg' = Effect(tg, shown)
    /\ UNCHANGED outsideTg

\* The user edits the phone field of the phone form.
TypePhone ==
    /\ tg.mounted
    /\ tg.telegramStatus \in {"needs_auth", "error"}
    /\ \E n \in 0 .. MaxPhone :
        /\ n # tg.phone
        /\ tg' = Effect(tg, [tg EXCEPT !.phone = n])
    /\ UNCHANGED outsideTg

\* handleTelegramAuthStart up to the request.
handleTelegramAuthStart ==
    /\ tg.mounted
    /\ tg.telegramStatus \in {"needs_auth", "error"}
    /\ tg.authStatus = "idle"
    /\ tg.phone = MaxPhone
    /\ tg' = Effect(tg, [tg EXCEPT !.authError = FALSE, !.authToken = FALSE,
                                   !.authStatus = "sending", !.verify = NoVerify,
                                   !.cancelledFlow = FALSE])
    /\ UNCHANGED outsideTg

\* POST /telegram/auth/start answers: the code is sent and a token returned,
\* or the request fails (apiFetch throws, the catch sets authError).
StartAnswer ==
    /\ tg.authStatus = "sending"
    /\ \/ /\ tg.state # "connected"
          /\ tg' = Effect(tg, [tg EXCEPT !.state = "phone_sent",
                                         !.telegramStatus = "phone_sent",
                                         !.authToken = tg.issuesToken \/ @,
                                         !.authStatus = "idle"])
       \/ tg' = [tg EXCEPT !.authError = TRUE, !.authStatus = "idle"]
    /\ UNCHANGED outsideTg

\* handleTelegramAuthVerify up to the request: verifyTelegramAuth(phone or
\* undefined, code, token); the fourth parameter, password, is not passed.
handleTelegramAuthVerify ==
    /\ tg.mounted
    /\ tg.telegramStatus = "phone_sent"
    /\ tg.authStatus = "idle"
    /\ \E code \in Codes :
        tg' = [tg EXCEPT !.authError = FALSE, !.authStatus = "verifying",
                         !.verify = [by |-> "ui", code |-> code,
                                     password |-> FALSE, answered |-> FALSE,
                                     token |-> tg.authToken,
                                     phone |-> ~tg.authToken /\ tg.phone > 0]]
    /\ UNCHANGED outsideTg

\* What the message source answers to the tab's verify request: one that
\* names neither the token nor the phone cannot be matched to a flow.
UiVerifyResult ==
    IF ~tg.verify.token /\ ~tg.verify.phone THEN "error"
    ELSE VerifyResult(tg.state, tg.twoFA, tg.verify.code, tg.verify.password)

\* The states a response that did not throw can carry for a result.
ResponseStates(r) == IF r = "connected" THEN {"connected"} ELSE {"error", "phone_sent"}

\* POST /telegram/auth/verify answers the tab: the result's state is shown,
\* phone, code and token are cleared; a non-2xx answer lands in the catch.
VerifyAnswer ==
    /\ tg.authStatus = "verifying"
    /\ LET r == UiVerifyResult
       IN  \/ \E shown \in ResponseStates(r) :
                 tg' = Effect(tg, [tg EXCEPT
                               !.state = IF r = "connected" THEN r ELSE @,
                               !.telegramStatus = shown,
                               !.phone = 0,
                               !.authToken = FALSE,
                               !.authStatus = "idle",
                               !.verify.answered = TRUE])
           \/ /\ r = "error"
              /\ tg' = [tg EXCEPT !.authError = TRUE, !.authStatus = "idle",
                                  !.verify.answered = TRUE]
    /\ UNCHANGED outsideTg

\* The "Cancel and try again" button of the code form.
BackToPhone ==
    /\ tg.telegramStatus = "phone_sent"
    /\ tg.authStatus = "idle"
    /\ tg' = [tg EXCEPT !.telegramStatus = "needs_auth", !.cancelledFlow = TRUE]
    /\ UNCHANGED outsideTg

\* handleTelegramDisconnect.
handleTelegramDisconnect ==
    /\ tg.telegramStatus = "connected"
    /\ tg.authStatus = "idle"
    /\ tg' = [tg EXCEPT !.state = "needs_auth", !.telegramStatus = "needs_auth"]
    /\ UNCHANGED outsideTg

\* Another client of the API verifies, with or without the password.
ApiVerify ==
    /\ tg.authStatus = "idle"
    /\ \E code \in Codes : \E password \in BOOLEAN :
        LET r == VerifyResult(tg.state, tg.twoFA, code, password)
        IN  tg' = [tg EXCEPT !.state = IF r = "connected" THEN r ELSE @,
                             !.verify = [by |-> "api", code |-> code,
                                         password |-> password, answered |-> TRUE,
                                         token |-> TRUE, phone |-> FALSE]]
    /\ UNCHANGED outsideTg

TelegramInit ==
    /\ StreamIdle
    /\ TasksIdle
    /\ StoreIdle
    /\ FnIdle
    /\ GatewayIdle
    /\ chatTab = ChatTabIdle
    /\ HooksIdle
    /\ tg \in {[TgIdle EXCEPT !.twoFA = b, !.issuesToken = t, !.statusRestores = r] :
                  b \in BOOLEAN, t \in BOOLEAN, r \in BOOLEAN}

TelegramNext ==
    \/ checkStatus
    \/ SaveStatus
    \/ StatusAnswer
    \/ TypePhone
    \/ handleTelegramAuthStart
    \/ StartAnswer
    \/ handleTelegramAuthVerify
    \/ VerifyAnswer
    \/ BackToPhone
    \/ handleTelegramDisconnect
    \/ ApiVerify

SpecTelegram == TelegramInit /\ [][TelegramNext]_vars

\* The tab's verify with the right code, sent while the code was awaited,
\* has been answered.
UiVerified ==
    /\ tg.verify.by = "ui"
    /\ tg.verify.answered
    /\ tg.verify.code = "right"
    /\ tg.verify.token \/ tg.verify.phone

\* C19: from needs_auth, start takes the session to phone_sent and the tab's
\* verify with the code takes it to connected; for an account with two-step
\* verification the verify request carries the password.
C19_VerifyConnects ==
    /\ tg.twoFA /\ tg.verify.by = "ui" => tg.verify.password
    /\ UiVerified /\ tg.authStatus = "idle" /\ tg.telegramStatus # "needs_auth"
         => tg.state = "connected"

\* C22: every verify request of the auth form carries either the token or a
\* non-empty phone: never neither, never both.
C22_TokenOrPhone ==
    tg.verify.by = "ui" => (tg.verify.token # tg.verify.phone)

\* C27: after "Cancel and try again" the tab shows the phone form until a
\* new authorization is started, whatever is typed and whatever status
\* answers arrive.
C27_CancelStays ==
    tg.cancelledFlow => tg.telegramStatus = "needs_auth"

\* ------------------------------------------------------------------------
\* The three tabs of the page (pages/Index.tsx renders ChatTab, DataTab and
\* SettingsTab together and hides the inactive ones): each keeps its own
\* copy of the Telegram status.  checkStatus above is the page load; the
\* Chat tab's init() and the Data tab's loadAll() run once, at that load.
\* ------------------------------------------------------------------------
\* ChatTab init(): Promise.all([getTelegramStatus(), getSettings()]) answers
\* or throws; checkingTelegram ends either way.
ChatInitAnswer ==
    /\ tg.mounted
    /\ tg.chatTab.checkingTelegram
    /\ \/ tg' = [tg EXCEPT !.chatTab = [telegramStatus |-> tg.state,
                                       checkingTelegram |-> FALSE]]
       \/ tg' = [tg EXCEPT !.chatTab.checkingTelegram = FALSE]
    /\ UNCHANGED outsideTg

\* DataTab loadAll(): getTelegramStatus().then(setTelegramStatus) or .catch.
DataLoadAnswer ==
    /\ tg.mounted
    /\ ~tg.dataTab.answered
    /\ \/ tg' = [tg EXCEPT !.dataTab = [telegramStatus |-> tg.state, answered |-> TRUE]]
       \/ tg' = [tg EXCEPT !.dataTab.answered = TRUE]
    /\ UNCHANGED outsideTg

\* The Chat tab's textarea: disabled={!isTelegramConnected && !checkingTelegram}.
ChatInputEnabled ==
    tg.chatTab.telegramStatus = "connected" \/ tg.chatTab.checkingTelegram

\* The Data tab's Sync Now: disabled={!isTelegramConnected}.
SyncNowEnabled == tg.dataTab.telegramStatus = "connected"

TabsInit ==
    /\ StreamIdle
    /\ TasksIdle
    /\ StoreIdle
    /\ FnIdle
    /\ GatewayIdle
    /\ chatTab = ChatTabIdle
    /\ HooksIdle
    /\ tg \in {[TgIdle EXCEPT !.issuesToken = t] : t \in BOOLEAN}

TabsNext ==
    \/ checkStatus
    \/ StatusAnswer
    \/ ChatInitAnswer
    \/ DataLoadAnswer
    \/ TypePhone
    \/ handleTelegramAuthStart
    \/ StartAnswer
    \/ handleTelegramAuthVerify
    \/ VerifyAnswer
    \/ BackToPhone
    \/ handleTelegramDisconnect

\* Every request that is in flight is answered.
TabsFairness ==
    /\ WF_vars(StatusAnswer)
    /\ WF_vars(ChatInitAnswer)
    /\ WF_vars(DataLoadAnswer)
    /\ WF_vars(StartAnswer)
    /\ WF_vars(VerifyAnswer)

SpecTabs == TabsInit /\ [][TabsNext]_vars /\ TabsFairness

\* C28: once the auth flow of the Settings tab shows connected, the Chat
\* tab's input and the Data tab's Sync Now are eventually enabled.
C28_TabsFollowConnected ==
    (tg.telegramStatus = "connected") ~> (ChatInputEnabled /\ SyncNowEnabled)

\* ------------------------------------------------------------------------
\* The Chat tab: handleSend, handleStop (ChatTab) over streamChat / apiStream
\* and the chat orchestrator.  One message is sent per behaviour.
\* chatTab.signal is the AbortSignal of the request's controller: "none"
\* before the send, "live", "aborted", or "dropped" once the request is over.
\* chatTab.content is the assistant message's content, token by token;
\* chatTab.stopped (ghost) says Stop was clicked, chatTab.atStop (ghost) what
\* the content was then.
\* ------------------------------------------------------------------------
\* The catch of handleSend appends [Error: <message>] itself.
ClientErrorText == "[Error: Failed to get response]"

\* The contents of the token events among the events streamChat passes on.
RECURSIVE Tokens_Of(_)
Tokens_Of(evs) ==
    IF evs = <<>> THEN <<>>
    ELSE IF Head(evs).type = "token" THEN <<Head(evs).content>> \o Tokens_Of(Tail(evs))
    ELSE Tokens_Of(Tail(evs))

\* The finally of handleSend.
Finally(tab) == [tab EXCEPT !.isLoading = FALSE, !.abortController = FALSE]

\* handleSend up to the request: the placeholder message, a new controller.
handleSend ==
    /\ ~chatTab.isLoading
    /\ chatTab.signal = "none"
    /\ chatTab' = [chatTab EXCEPT !.isLoading = TRUE, !.abortController = TRUE,
                                  !.signal = "live", !.error = FALSE, !.content = <<>>]
    /\ UNCHANGED <<sseVars, chatVars, outsideChatTab>>

\* The request reaches the orchestrator.
TabChatStart ==
    /\ chatTab.signal # "none"
    /\ ChatStart

\* The closed connection of an aborted request is seen by the orchestrator.
ChatAbortSeen ==
    /\ chatTab.signal = "aborted"
    /\ ChatCancel

\* One read of apiStream and the turns of handleSend's loop on the events it
\* yields (they run before anything else can); a done event ends the loop.
TabRead ==
    /\ chatTab.signal = "live"
    /\ spc = "reading"
    /\ wire # <<>>
    /\ \E n \in ReadSizes :
        /\ n >= 1 /\ n <= Len(wire)
        /\ LET s == ApiStreamStep(buffer, SubSeq(wire, 1, n))
               tab == [chatTab EXCEPT
                         !.content = @ \o Tokens_Of(streamChat(s.evs))]
           IN  /\ buffer' = s.buffer
               /\ yielded' = yielded \o s.evs
               /\ spc' = IF s.ret THEN "returned" ELSE "reading"
               /\ chatTab' = IF s.ret THEN [Finally(tab) EXCEPT !.signal = "dropped"]
                             ELSE tab
        /\ wire' = SubSeq(wire, n + 1, Len(wire))
    /\ UNCHANGED <<lines, sep, closed, chatVars, outsideChatTab>>

\* read() reports done: the loop ends without a done event.
TabEnd ==
    /\ chatTab.signal = "live"
    /\ spc = "reading"
    /\ wire = <<>>
    /\ closed
    /\ spc' = "ended"
    /\ chatTab' = [Finally(chatTab) EXCEPT !.signal = "dropped"]
    /\ UNCHANGED <<lines, sep, wire, closed, buffer, yielded, chatVars, outsideChatTab>>

\* fetch or read() rejects and the signal is not aborted: the catch sets the
\* error banner and appends the error text.
TabFail ==
    /\ chatTab.signal = "live"
    /\ spc = "reading"
    /\ spc' = "ended"
    /\ chatTab' = [Finally(chatTab) EXCEPT !.signal = "dropped", !.error = TRUE,
                                           !.content = Append(@, ClientErrorText)]
    /\ UNCHANGED <<lines, sep, wire, closed, buffer, yielded, chatVars, outsideChatTab>>

\* A Stop that updates the tab and leaves the request alone.
handleStop_NoAbort ==
    /\ chatTab.abortController
    /\ chatTab' = [Finally(chatTab) EXCEPT !.stopped = TRUE,
                                           !.atStop = chatTab.content]
    /\ UNCHANGED <<sseVars, chatVars, outsideChatTab>>

\* handleStop: abortController.abort(), isLoading false, controller null.
\* The pending fetch or read() rejects; handleSend's catch sees the aborted
\* signal and shows nothing; its finally follows.
handleStop ==
    /\ chatTab.abortController
    /\ chatTab' = [Finally(chatTab) EXCEPT !.stopped = TRUE,
                                           !.atStop = chatTab.content,
                                           !.signal = "aborted"]
    /\ spc' = "ended"
    /\ UNCHANGED <<lines, sep, wire, closed, buffer, yielded, chatVars, outsideChatTab>>

ChatTabInit ==
    /\ StreamIdle
    /\ TasksIdle
    /\ StoreIdle
    /\ FnIdle
    /\ GatewayIdle
    /\ tg = TgIdle
    /\ HooksIdle
    /\ chatTab = ChatTabIdle

ChatTabNext ==
    \/ handleSend
    \/ TabChatStart
    \/ ChatToken
    \/ ChatReasoning
    \/ ChatLlmEnd
    \/ ChatLlmError
    \/ ChatAbortSeen
    \/ ChatDone
    \/ StreamCut
    \/ TabRead
    \/ TabEnd
    \/ TabFail
    \/ handleStop

SpecChatTab == ChatTabInit /\ [][ChatTabNext]_vars

\* C17: once a chat has been stopped mid-stream the request is cancelled, no
\* further token is appended to the message, neither the error banner nor an
\* [Error: ...] text appears, and the chat is idle.
C17_StopEndsQuietly ==
    chatTab.stopped =>
        /\ chatTab.signal = "aborted"
        /\ spc = "ended"
        /\ chatTab.content = chatTab.atStop
        /\ ~chatTab.error
        /\ \A i \in 1 .. Len(chatTab.content) : chatTab.content[i] # ClientErrorText
        /\ ~chatTab.isLoading
        /\ ~chatTab.abortController
        /\ srv.cancelled => srv.phase # "tokens"

\* C17 witness: stopped after the first token was shown, with a further token
\* already written by the server and an orchestrator that saw the cancel.
C17_Witness ==
    /\ chatTab.stopped
    /\ Len(chatTab.content) = 1
    /\ Count(Emitted, "token") = 2
    /\ srv.cancelled


(***************************************************************************)
(* The Chat tab's conversation over several sends.  Every call of          *)
(* handleSend that passes its guard starts one stream, numbered in the     *)
(* order of the sends; stream k owns the messages with ids 2k-1 (user)     *)
(* and 2k (assistant placeholder).  A stream is "open" while its for-await *)
(* loop is consuming events, "aborted" once abort() has rejected its       *)
(* pending await and the catch/finally continuation is queued, "stopped"   *)
(* after that continuation, and "over" after the finally block of a stream *)
(* that was not stopped.                                                   *)
(***************************************************************************)
Inputs == {<<>>, <<" ">>, <<"q">>}

\* A request body that also lists the assistant placeholder.
ApiMessages_WithPlaceholder(msgs, text) ==
    [i \in 1 .. Len(msgs) |-> [role |-> msgs[i].role, content |-> msgs[i].content]]
        \o <<[role |-> "user", content |-> text], [role |-> "assistant", content |-> <<>>]>>

\* messages.map(m => ({role, content})) followed by the new user message.
ApiMessages(msgs, text) ==
    [i \in 1 .. Len(msgs) |-> [role |-> msgs[i].role, content |-> msgs[i].content]]
        \o <<[role |-> "user", content |-> text]>>

\* The reducer's APPEND_TOKEN: the message with the id gets the token.
AppendToken(msgs, id, token) ==
    [i \in 1 .. Len(msgs) |->
        IF msgs[i].id = id
        THEN [msgs[i] EXCEPT !.content = Append(@, token)]
        ELSE msgs[i]]

\* The continuation of a rejected await is a microtask: the event loop runs
\* it before it dispatches the next click, key press or network event.
TaskTurn == \A k \in 1 .. MaxSends : conv.streams[k] # "aborted"

\* What a call of handleSend can change.
Snapshot(c) == [messages |-> c.messages, input |-> c.input,
                isLoading |-> c.isLoading, abortController |-> c.abortController,
                error |-> c.error, streams |-> c.streams,
                requests |-> c.requests, sent |-> c.sent]

\* The user edits the textarea.
SetInput ==
    /\ TaskTurn
    /\ \E text \in Inputs :
        /\ text # conv.input
        /\ conv' = [conv EXCEPT !.input = text, !.last = NoSend]
    /\ UNCHANGED outsideConv

\* A handleSend without the isLoading half of its guard.
ConvSend_WhileLoading(c) ==
    LET k == c.sent + 1
        called == [did |-> TRUE, blank |-> Trim(c.input) = <<>>,
                   loading |-> c.isLoading, before |-> Snapshot(c)]
    IN  IF Trim(c.input) = <<>>
        THEN [c EXCEPT !.last = called]
        ELSE [c EXCEPT !.messages = c.messages \o
                            <<[id |-> 2 * k - 1, role |-> "user", content |-> c.input],
                              [id |-> 2 * k, role |-> "assistant", content |-> <<>>]>>,
                       !.input = <<>>,
                       !.isLoading = TRUE,
                       !.error = FALSE,
                       !.abortController = k,
                       !.requests[k] = ApiMessages(c.messages, c.input),
                       !.streams[k] = "open",
                       !.sent = k,
                       !.last = called]

\* handleSend on the state c: the guard, the two ADD_MESSAGE dispatches, the
\* state setters and the request issued by streamChat's first step.
ConvSend(c) ==
    LET k == c.sent + 1
        called == [did |-> TRUE, blank |-> Trim(c.input) = <<>>,
                   loading |-> c.isLoading, before |-> Snapshot(c)]
    IN  IF Trim(c.input) = <<>> \/ c.isLoading
        THEN [c EXCEPT !.last = called]
        ELSE [c EXCEPT !.messages = c.messages \o
                            <<[id |-> 2 * k - 1, role |-> "user", content |-> c.input],
                              [id |-> 2 * k, role |-> "assistant", content |-> <<>>]>>,
                       !.input = <<>>,
                       !.isLoading = TRUE,
                       !.error = FALSE,
                       !.abortController = k,
                       !.requests[k] = ApiMessages(c.messages, c.input),
                       !.streams[k] = "open",
                       !.sent = k,
                       !.last = called]

\* Enter in the textarea or a click on Send.
ConvHandleSend ==
    /\ TaskTurn
    /\ conv.sent < MaxSends
    /\ conv' = ConvSend(conv)
    /\ UNCHANGED outsideConv

\* A token event of stream k reaches the loop.
ConvToken(k) ==
    /\ TaskTurn
    /\ conv.streams[k] = "open"
    /\ Len(conv.messages[2 * k].content) < MaxTokens
    /\ conv' = [conv EXCEPT !.messages = AppendToken(@, 2 * k, "t"),
                            !.last = NoSend]
    /\ UNCHANGED outsideConv

\* The finally block of handleSend.
ConvFinally(c, k) ==
    [c EXCEPT !.isLoading = FALSE, !.abortController = 0,
              !.streams[k] = "over", !.last = NoSend]

\* Stream k ends; the loop leaves and the finally block runs.
ConvDone(k) ==
    /\ TaskTurn
    /\ conv.streams[k] = "open"
    /\ conv' = ConvFinally(conv, k)
    /\ UNCHANGED outsideConv

\* Stream k throws without an abort: the banner and the [Error: ...] text.
ConvFail(k) ==
    /\ TaskTurn
    /\ conv.streams[k] = "open"
    /\ conv' = [ConvFinally(conv, k) EXCEPT
                    !.error = TRUE,
                    !.messages = AppendToken(@, 2 * k, ClientErrorText)]
    /\ UNCHANGED outsideConv

\* handleStop: abort() rejects the await the stream is parked on.
ConvHandleStop ==
    /\ TaskTurn
    /\ conv.abortController # 0
    /\ conv' = [conv EXCEPT !.streams[conv.abortController] =
                                IF @ = "open" THEN "aborted" ELSE @,
                            !.abortController = 0,
                            !.isLoading = FALSE,
                            !.last = NoSend]
    /\ UNCHANGED outsideConv

\* The catch of an aborted stream shows nothing; its finally follows.
ConvCleanup(k) ==
    /\ conv.streams[k] = "aborted"
    /\ conv' = [ConvFinally(conv, k) EXCEPT !.streams[k] = "stopped"]
    /\ UNCHANGED outsideConv

ConvInit ==
    /\ StreamIdle
    /\ TasksIdle
    /\ StoreIdle
    /\ FnIdle
    /\ GatewayIdle
    /\ chatTab = ChatTabIdle
    /\ tg = TgIdle
    /\ health = HealthIdle
    /\ models = ModelsIdle
    /\ dataTab = DataTabIdle
    /\ conv = ConvIdle

ConvNext ==
    \/ SetInput
    \/ ConvHandleSend
    \/ \E k \in 1 .. MaxSends : ConvToken(k)
    \/ \E k \in 1 .. MaxSends : ConvDone(k)
    \/ \E k \in 1 .. MaxSends : ConvFail(k)
    \/ ConvHandleStop
    \/ \E k \in 1 .. MaxSends : ConvCleanup(k)

SpecConv == ConvInit /\ [][ConvNext]_vars

\* C21: a handleSend on a blank input or while loading changes nothing; any
\* other handleSend appends exactly the user message and then the empty
\* assistant placeholder, and its request lists the prior history in order
\* with the new user message last and without the placeholder.
C21_SendAppendsTwo ==
    conv.last.did =>
        LET before == conv.last.before.messages
            n == Len(before)
        IN  IF conv.last.blank \/ conv.last.loading
            THEN Snapshot(conv) = conv.last.before
            ELSE /\ Len(conv.messages) = n + 2
                 /\ SubSeq(conv.messages, 1, n) = before
                 /\ conv.messages[n + 1].role = "user"
                 /\ conv.messages[n + 1].content = conv.last.before.input
                 /\ conv.messages[n + 2].role = "assistant"
                 /\ conv.messages[n + 2].content = <<>>
                 /\ conv.sent = conv.last.before.sent + 1
                 /\ \A k \in 1 .. MaxSends :
                        k # conv.sent => conv.requests[k] = conv.last.before.requests[k]
                 /\ LET req == conv.requests[conv.sent]
                    IN  /\ Len(req) = n + 1
                        /\ \A i \in 1 .. n :
                               req[i] = [role |-> before[i].role,
                                         content |-> before[i].content]
                        /\ req[n + 1] = [role |-> "user",
                                         content |-> conv.last.before.input]

\* C21 witness: the second message of a conversation has just been sent, the
\* first answer is part of the history it carries.
C21_Witness ==
    /\ conv.last.did
    /\ ~conv.last.blank
    /\ ~conv.last.loading
    /\ conv.sent = 2
    /\ Len(conv.last.before.messages) = 2
    /\ conv.last.before.messages[2].content # <<>>

\* C21 witness of the guard: handleSend was called while a stream was loading.
C21_WitnessNoOp ==
    /\ conv.last.did
    /\ conv.last.loading
    /\ ~conv.last.blank

\* C24: while a chat stream is being consumed, isLoading is true and
\* abortController is that stream's controller; so at most one stream is
\* being consumed at any time.
C24_OneStreamStoppable ==
    \A k \in 1 .. MaxSends :
        conv.streams[k] = "open" =>
            /\ conv.isLoading
            /\ conv.abortController = k
            /\ \A j \in 1 .. MaxSends : conv.streams[j] = "open" => j = k

\* C24 witness: a second stream is being consumed after the first was
\* stopped and cleaned up.
C24_Witness ==
    /\ conv.streams[1] = "stopped"
    /\ conv.streams[2] = "open"
    /\ conv.messages[2].content # <<>>
    /\ conv.isLoading


(***************************************************************************)
(* hooks/useHealthCheck.ts: the effect starts one check at mount and one   *)
(* at every tick of the interval; each check is a fetch of /api/health     *)
(* whose answer (or failure) sets the status unless the effect has been    *)
(* cleaned up.  checks[i] is "none", "pending", or the outcome the i-th    *)
(* check settled with; shown is the check whose outcome the status holds.  *)
(***************************************************************************)
Outcomes == {"connected", "disconnected"}

\* The effect body: check() and setInterval(check, intervalMs).
HealthMount ==
    /\ ~health.mounted
    /\ ~health.cancelled
    /\ health' = [health EXCEPT !.mounted = TRUE, !.checks[1] = "pending",
                                !.started = 1]
    /\ UNCHANGED outsideHealth

\* The interval fires: check() again, whatever became of the checks before.
HealthTick ==
    /\ health.mounted
    /\ health.started < MaxChecks
    /\ health' = [health EXCEPT !.checks[health.started + 1] = "pending",
                                !.started = @ + 1]
    /\ UNCHANGED outsideHealth

\* A check whose answer is applied even after the cleanup.
HealthSettle_IgnoresCancelled(h, i, outcome) ==
    [h EXCEPT !.checks[i] = outcome, !.status = outcome, !.shown = i]

\* check() after its await: res.ok, !res.ok or a thrown fetch.
HealthSettle(h, i, outcome) ==
    IF h.cancelled
    THEN [h EXCEPT !.checks[i] = outcome]
    ELSE [h EXCEPT !.checks[i] = outcome, !.status = outcome, !.shown = i]

\* The answer to the i-th check arrives; answers arrive in any order.
HealthAnswer(i) ==
    /\ health.checks[i] = "pending"
    /\ \E outcome \in Outcomes : health' = HealthSettle(health, i, outcome)
    /\ UNCHANGED outsideHealth

\* The effect's cleanup.
HealthUnmount ==
    /\ health.mounted
    /\ health' = [health EXCEPT !.mounted = FALSE, !.cancelled = TRUE,
                                !.atUnmount = health.status]
    /\ UNCHANGED outsideHealth

HealthInit ==
    /\ StreamIdle
    /\ TasksIdle
    /\ StoreIdle
    /\ FnIdle
    /\ GatewayIdle
    /\ chatTab = ChatTabIdle
    /\ tg = TgIdle
    /\ conv = ConvIdle
    /\ models = ModelsIdle
    /\ dataTab = DataTabIdle
    /\ health = HealthIdle

HealthNext ==
    \/ HealthMount
    \/ HealthTick
    \/ \E i \in 1 .. MaxChecks : HealthAnswer(i)
    \/ HealthUnmount

SpecHealth == HealthInit /\ [][HealthNext]_vars

Completed == {i \in 1 .. MaxChecks : health.checks[i] \in Outcomes}

\* C25, the part about unmounting: after the cleanup the status is the one
\* it was at the cleanup, whatever answers arrive later.
C25_NoUpdateAfterUnmount ==
    health.cancelled => health.status = health.atUnmount

\* C25: while the hook is mounted, the status shown is the outcome of the most
\* recently started check among those that have completed.
C25_ShowsLatestCompleted ==
    ~health.cancelled /\ Completed # {} =>
        /\ \A i \in Completed : i <= health.shown
        /\ health.status = health.checks[health.shown]

\* C25 witness of the unmount part: an answer arrived after the cleanup with
\* an outcome other than the status shown.
C25_WitnessLateAnswer ==
    /\ health.cancelled
    /\ \E i \in Completed : i > health.shown /\ health.checks[i] # health.status


(***************************************************************************)
(* useModels (part_006): every run of the effect issues one request of     *)
(* /models and owns one `cancelled` flag, set by the cleanup that runs     *)
(* before the next run of the effect and at unmount.  reqs[i] is "none",   *)
(* "pending", "ok" or "failed" (settled and applied) or "discarded"        *)
(* (settled after its effect was cleaned up); when[i] is the number of     *)
(* requests that had been issued when request i was applied; from is the   *)
(* request whose response the list holds.                                  *)
(***************************************************************************)
ModelLists == {"a", "b"}

\* load() up to its await: setLoading(true), setError(null), the request.
ModelsLoad(m) ==
    LET i == m.issued + 1
    IN  [m EXCEPT !.loading = TRUE, !.error = FALSE,
                  !.reqs[i] = "pending", !.issued = i]

\* The effect runs at mount.
ModelsMount ==
    /\ ~models.mounted
    /\ models.issued = 0
    /\ models' = [ModelsLoad(models) EXCEPT !.mounted = TRUE]
    /\ UNCHANGED outsideModels

\* refetch(opts) or a changed filter, provider, url or api_key: the cleanup
\* of the effect's last run, then the effect again.
ModelsRefetch ==
    /\ models.mounted
    /\ models.issued < MaxRequests
    /\ models' = ModelsLoad([models EXCEPT !.cancelled[models.issued] = TRUE])
    /\ UNCHANGED outsideModels

\* A load() that applies its result without looking at `cancelled`.
ModelsSettle_IgnoresCancelled(m, i, ok, data) ==
    IF ok
    THEN [m EXCEPT !.reqs[i] = "ok", !.when[i] = m.issued,
                   !.models = data, !.from = i, !.loading = FALSE]
    ELSE [m EXCEPT !.reqs[i] = "failed", !.when[i] = m.issued,
                   !.error = TRUE, !.loading = FALSE]

\* load() after its await: the response or the thrown error of request i.
ModelsSettle(m, i, ok, data) ==
    IF m.cancelled[i]
    THEN [m EXCEPT !.reqs[i] = "discarded"]
    ELSE IF ok
    THEN [m EXCEPT !.reqs[i] = "ok", !.when[i] = m.issued,
                   !.models = data, !.from = i, !.loading = FALSE]
    ELSE [m EXCEPT !.reqs[i] = "failed", !.when[i] = m.issued,
                   !.error = TRUE, !.loading = FALSE]

\* Request i settles; requests settle in any order.
ModelsAnswer(i) ==
    /\ models.reqs[i] = "pending"
    /\ \E ok \in BOOLEAN, data \in ModelLists :
          models' = ModelsSettle(models, i, ok, data)
    /\ UNCHANGED outsideModels

\* The component unmounts: the cleanup of the effect's last run.
ModelsUnmount ==
    /\ models.mounted
    /\ models' = [models EXCEPT !.mounted = FALSE,
                                !.cancelled[models.issued] = TRUE]
    /\ UNCHANGED outsideModels

ModelsInit ==
    /\ StreamIdle
    /\ TasksIdle
    /\ StoreIdle
    /\ FnIdle
    /\ GatewayIdle
    /\ chatTab = ChatTabIdle
    /\ tg = TgIdle
    /\ conv = ConvIdle
    /\ health = HealthIdle
    /\ dataTab = DataTabIdle
    /\ models = ModelsIdle

ModelsNext ==
    \/ ModelsMount
    \/ ModelsRefetch
    \/ \E i \in 1 .. MaxRequests : ModelsAnswer(i)
    \/ ModelsUnmount

SpecModels == ModelsInit /\ [][ModelsNext]_vars

\* C26 as stated: once the latest request has settled, a list that is shown
\* is the response to the most recently issued request.
C26_ListFromLatest ==
    models.mounted /\ ~models.loading /\ models.from # 0 =>
        models.from = models.issued

\* C26: only the most recently issued request ever changes the hook's state.
\* No superseded request is applied; loading is false exactly when the latest
\* request has settled; after a success the list is its response; after a
\* failure the error is set and the list is still that of the last request
\* that succeeded (none: the empty list).
C26_LatestWins ==
    /\ \A i \in 1 .. MaxRequests :
           models.reqs[i] \in {"ok", "failed"} => models.when[i] = i
    /\ models.mounted =>
        LET latest == models.reqs[models.issued]
            applied == {i \in 1 .. MaxRequests : models.reqs[i] = "ok"}
        IN  /\ latest \in {"pending", "ok", "failed"}
            /\ models.loading <=> latest = "pending"
            /\ models.error <=> latest = "failed"
            /\ latest = "ok" => models.from = models.issued
            /\ models.from = 0 <=> applied = {}
            /\ models.from = 0 <=> models.models = "none"
            /\ \A i \in applied : i <= models.from

\* C26 witness: the response of a superseded request arrived after the
\* latest request had succeeded, and was discarded.
C26_Witness ==
    /\ models.mounted
    /\ models.issued = 2
    /\ models.reqs[2] = "ok"
    /\ models.reqs[1] = "discarded"
    /\ models.from = 2
    /\ ~models.loading


(***************************************************************************)
(* The Data tab's Sync Now and Process Now (part_002): handleSync consumes *)
(* the stream of POST /sync, handleProcess that of POST /process; both     *)
(* show their progress in syncState.  streams[i] is the i-th stream the    *)
(* tab started: its path and whether its for-await loop is still running.  *)
(***************************************************************************)
OpenStreams(d) == {i \in 1 .. MaxStreams : d.streams[i].open}

\* A Process Now button that is rendered whenever something is pending.
ProcessVisible_Always(d) == d.has_pending

\* The Pending Processing alert, and with it the Process Now button, is
\* rendered only while pending work is reported and syncState is not running.
ProcessVisible(d) == d.has_pending /\ d.syncState # "running"

\* fetchPendingStats answers (at load and in refreshStats).
PendingStats ==
    /\ \E b \in BOOLEAN :
        /\ b # dataTab.has_pending
        /\ dataTab' = [dataTab EXCEPT !.has_pending = b]
    /\ UNCHANGED outsideDataTab

\* handleSync up to the first await of its stream.
DataSync(d) ==
    IF d.syncState = "running" THEN d
    ELSE [d EXCEPT !.syncState = "running", !.message = "starting",
                   !.streams[d.started + 1] = [path |-> "/sync", open |-> TRUE],
                   !.started = @ + 1]

\* handleProcess up to the first await of its stream.
DataProcess(d) ==
    IF d.isProcessing THEN d
    ELSE [d EXCEPT !.isProcessing = TRUE,
                   !.syncState = "running", !.message = "starting",
                   !.streams[d.started + 1] = [path |-> "/process", open |-> TRUE],
                   !.started = @ + 1]

\* A click where Process Now would be: nothing where it is not rendered.
ClickProcess(d) == IF ProcessVisible(d) THEN DataProcess(d) ELSE d

\* A click on Sync Now.
DataHandleSync ==
    /\ dataTab.started < MaxStreams
    /\ dataTab' = DataSync(dataTab)
    /\ dataTab' # dataTab
    /\ UNCHANGED outsideDataTab

\* A click on Process Now.
DataHandleProcess ==
    /\ dataTab.started < MaxStreams
    /\ dataTab' = ClickProcess(dataTab)
    /\ dataTab' # dataTab
    /\ UNCHANGED outsideDataTab

\* handleCancelSync: the message changes, the status is kept.
DataCancelSync ==
    /\ dataTab.syncState = "running"
    /\ dataTab.message # "stopping"
    /\ dataTab' = [dataTab EXCEPT !.message = "stopping"]
    /\ UNCHANGED outsideDataTab

\* The finally block of handleProcess; handleSync has none.
DataFinally(d, i) ==
    [d EXCEPT !.streams[i].open = FALSE,
              !.isProcessing = IF d.streams[i].path = "/process" THEN FALSE ELSE @]

\* A progress event: setSyncState(prev => ({...prev, message})).
DataProgress(i) ==
    /\ dataTab.streams[i].open
    /\ dataTab.message # "progress"
    /\ dataTab' = [dataTab EXCEPT !.message = "progress"]
    /\ UNCHANGED outsideDataTab

\* The done event: success; apiStream returns at it and the loop ends.
DataDone(i) ==
    /\ dataTab.streams[i].open
    /\ dataTab' = [DataFinally(dataTab, i) EXCEPT !.syncState = "success",
                                                  !.message = "done"]
    /\ UNCHANGED outsideDataTab

\* The stream ends without a done event: the loop ends, the status stays.
DataEnd(i) ==
    /\ dataTab.streams[i].open
    /\ dataTab' = DataFinally(dataTab, i)
    /\ UNCHANGED outsideDataTab

\* The request or a read throws: the catch shows the error.
DataFail(i) ==
    /\ dataTab.streams[i].open
    /\ dataTab' = [DataFinally(dataTab, i) EXCEPT !.syncState = "error",
                                                  !.message = "failed"]
    /\ UNCHANGED outsideDataTab

DataTabInit ==
    /\ StreamIdle
    /\ TasksIdle
    /\ StoreIdle
    /\ FnIdle
    /\ GatewayIdle
    /\ chatTab = ChatTabIdle
    /\ tg = TgIdle
    /\ conv = ConvIdle
    /\ health = HealthIdle
    /\ models = ModelsIdle
    /\ dataTab = DataTabIdle

DataTabNext ==
    \/ PendingStats
    \/ DataHandleSync
    \/ DataHandleProcess
    \/ DataCancelSync
    \/ \E i \in 1 .. MaxStreams : DataProgress(i)
    \/ \E i \in 1 .. MaxStreams : DataDone(i)
    \/ \E i \in 1 .. MaxStreams : DataEnd(i)
    \/ \E i \in 1 .. MaxStreams : DataFail(i)

SpecDataTab == DataTabInit /\ [][DataTabNext]_vars

\* C29: at most one of the tab's /sync and /process streams is in flight at
\* any time; while one is, syncState is running, and a click on Sync Now or
\* on Process Now changes nothing.
C29_OneDataStream ==
    /\ Cardinality(OpenStreams(dataTab)) <= 1
    /\ \A i \in OpenStreams(dataTab) :
           /\ dataTab.syncState = "running"
           /\ DataSync(dataTab) = dataTab
           /\ ClickProcess(dataTab) = dataTab
           /\ dataTab.streams[i].path = "/process" => dataTab.isProcessing

\* C29 witness: a sync is streaming, after a processing run has finished,
\* while pending work is reported.
C29_Witness ==
    /\ dataTab.streams[1] = [path |-> "/process", open |-> FALSE]
    /\ dataTab.streams[2] = [path |-> "/sync", open |-> TRUE]
    /\ dataTab.has_pending
    /\ dataTab.message = "progress"

====
